---- MODULE Spec2Model ----
(***************************************************************************)
(* A model of the Dukascopy downloader's fetch / orchestrate pipeline.     *)
(*                                                                         *)
(*   Part I  (SpecFetch): core/fetch.py download_hour, the retry loop of   *)
(*            one hourly blob, one action per loop iteration.              *)
(*   Part II (SpecOrch):  core/service.py DownloaderService.run and        *)
(*            _process_ticks with its worker threads, the circuit          *)
(*            breaker, cancellation, resume state (utils/resume.py) and    *)
(*            the partial files / final merge of core/csv_dumper.py.       *)
(*   Part III (SpecDay): one day inside do_work, fetch_day -> decompress   *)
(*            -> CSVDumper.append.                                         *)
(*   Part IV (SpecGen): the day generator.                                 *)
(*   Part V (SpecSource): the choice of the data source in run().          *)
(*   Part VI (SpecMerger): core/aggregator.py CandleMerger.                *)
(*   Part VII (SpecAssembly): CSVDumper.append and CSVDumper.dump, the     *)
(*            rows of the part files and of the final CSV.                 *)
(*   Part VIII (SpecLzma): core/processor.py decompress_lzma.              *)
(*   Part IX (SpecFetchDay, SpecFetchDayFair): core/fetch.py fetch_day,    *)
(*            the day's download_hour tasks under the semaphore.           *)
(*   Part X (SpecFetchCancel): download_hour while DownloaderService.cancel *)
(*            is called.                                                   *)
(*   Part XI (SpecJob): server.py, a job's status under run_download_job   *)
(*            and the cancel route.                                        *)
(*   Part XII (SpecValidate): core/validator.py validate_output.           *)
(*   Part XIII (SpecDecompress): core/processor.py decompress, the ticks   *)
(*            of a day from its hourly blobs.                              *)
(*   Part XIV (SpecStateFile): utils/resume.py save_state and clear_state  *)
(*            under the locks of two symbol runs.                          *)
(*   Part XV (SpecTempDir): the temporary directory of a CSVDumper on the  *)
(*            exit paths of a symbol run.                                  *)
(*   Part XVI (SpecObserver): the progress notifications of a symbol run.  *)
(***************************************************************************)
EXTENDS Integers, Sequences, FiniteSets, TLC

(***************************************************************************)
(* State of Part II (declared first: every action leaves the other part's  *)
(* variables unchanged).                                                   *)
(***************************************************************************)
VARIABLES
    symbols,           \* config.symbols, in the order run() walks them
    numDays,           \* len(all_days): the dates _generate_days yields
    resume,            \* config.resume
    startDate,         \* config.start_date, as [m, d] (month, day of month)
    cancel,            \* self._cancel_event
    circuitOpen,       \* self._circuit_open
    circuitResetTime,  \* self._circuit_reset_time
    now,               \* time.time(), seconds since the run began
    jobState,          \* .download_state.json: whether the file exists, and
                       \* symbol -> completed dates, or NoEntry
    priorState,        \* the state file as the run found it (never changes)
    output,            \* the final CSV of each symbol: the days whose rows it holds
    tempDir,           \* csv_dumper.temp_dir of each symbol: the days spilled into it
    symIx,             \* position of run()'s `for symbol in self.config.symbols`
    mpc,               \* where the thread that runs run() is
    pending,           \* pending_days of the current symbol (ascending sequence)
    subIx,             \* position of the submission loop in pending_days
    wpc,               \* per day: where its do_work call is
    wres,              \* per day: what do_work returned
    collected,         \* the futures the as_completed loop has handled
    completedList,     \* completed_list (its elements)
    completedCount,    \* completed_count
    hist               \* history of the run, read by the claims only

ovars == <<symbols, numDays, resume, startDate, cancel, circuitOpen, circuitResetTime, now,
           jobState, priorState, output, tempDir, symIx, mpc, pending, subIx,
           wpc, wres, collected, completedList, completedCount, hist>>

(***************************************************************************)
(* State of Part III: one day's pipeline inside do_work, fetch_day ->       *)
(* decompress -> CSVDumper.append.                                         *)
(***************************************************************************)
VARIABLES
    dGot,      \* per hour: how its download_hour ended, "pending" while running
    dpc,       \* "idle" | "fetch" | "decode" | "done"
    dIx,       \* decompress: the hour the loop over hourly_data_list is at
    dTicks,    \* decompress: all_ticks (each tick named by its hour)
    dPartial,  \* the day's .part file: the rows written into it
    dOutcome   \* how the pipeline ended, "none" while it runs

dvars == <<dGot, dpc, dIx, dTicks, dPartial, dOutcome>>

(***************************************************************************)
(* State of Part IV: the day generator.                                    *)
(***************************************************************************)
VARIABLES
    gStart,    \* config.start_date, as a proleptic ordinal (date.toordinal())
    gEnd,      \* config.end_date
    gToday,    \* date.today()
    gCurrent,  \* the generator's `current`
    gOut,      \* the dates yielded so far
    gpc        \* "idle" | "run" | "done"

gvars == <<gStart, gEnd, gToday, gCurrent, gOut, gpc>>

(***************************************************************************)
(* State of Part V: the choice of the data source in run().                *)
(***************************************************************************)
VARIABLES
    sSource,     \* config.data_source
    sPeriod,     \* config.timeframe.upper()
    sStartDate,  \* config.start_date, as [m, d]
    sNumDays,    \* len(all_days)
    spc,         \* "idle" | "select" | "fetch" | "done" | "error"
    sNative,     \* use_native
    sPlan,       \* the blobs the chosen path asks the server for
    sFetched,    \* the blobs requested so far
    sRows        \* the dates on which the output has rows

svars == <<sSource, sPeriod, sStartDate, sNumDays, spc, sNative, sPlan, sFetched, sRows>>

(***************************************************************************)
(* State of Part VI: a CandleMerger and the rows passed through it.        *)
(***************************************************************************)
VARIABLES
    cmIn,      \* the rows fed so far
    cmLast,    \* self.last_row
    cmOut,     \* the rows the caller has written (dump's writer.writerow)
    cmRet,     \* what the last feed returned
    cmFlush,   \* what flush returned
    cmpc       \* "idle" | "feed" | "flushed"

cmvars == <<cmIn, cmLast, cmOut, cmRet, cmFlush, cmpc>>

(***************************************************************************)
(* State of Part VII: a CSVDumper, the days appended to it and its dump.   *)
(***************************************************************************)
VARIABLES
    aPeriod,   \* self.timeframe, in seconds (TimeFrame.TICK for tick output)
    aPrice,    \* self.price_type
    aVolume,   \* self.volume_type
    aTicks,    \* per day: the ticks append was called with
    aParts,    \* per day: the rows of its .part file, <<>> when there is none
    aOrder,    \* the days in the order their append calls happened
    aOut,      \* the rows of the final CSV
    apc        \* "idle" | "spill" | "dumped"

avars == <<aPeriod, aPrice, aVolume, aTicks, aParts, aOrder, aOut, apc>>

(***************************************************************************)
(* State of Part VIII: one call of decompress_lzma.                        *)
(***************************************************************************)
VARIABLES
    zBlob,     \* the argument: the segments of the blob
    zData,     \* data: the segments not yet consumed
    zResults,  \* results: the decoded pieces
    zRet,      \* the value returned
    zpc        \* "idle" | "call" | "loop" | "join" | "returned" | "raised"

zvars == <<zBlob, zData, zResults, zRet, zpc>>

(***************************************************************************)
(* State of Part IX: one fetch_day call and its event loop.                *)
(***************************************************************************)
VARIABLES
    hpc,       \* fetch_day_async: "idle" | "create" | "start" | "gather" |
               \* "returned" | "raised"
    hIx,       \* the hour the creation loop, then the loop's sweep over the
               \* new tasks, is at
    hClock,    \* loop.time(), in units of REQUEST_DELAY (its top value
               \* stands for every later time)
    hState,    \* per hour: "none" | "created" | "waiting" | "inflight", or
               \* how its download_hour ended
    hValue,    \* semaphore._value
    hWaiters,  \* semaphore._waiters, oldest first
    hReqStart, \* per hour: <<t>> once its first request started at t
    hWaited,   \* the hours that had to wait for a slot
    hOrder,    \* did a call end before the call of an earlier hour?
    hRet       \* what fetch_day returned

hvars == <<hpc, hIx, hClock, hState, hValue, hWaiters, hReqStart, hWaited, hOrder, hRet>>

(***************************************************************************)
(* State of Part X: a download_hour call while the service is cancelled.    *)
(***************************************************************************)
VARIABLES
    kAtCancel  \* history: <<n>> once cancel() ran, n = requests issued by then

kvars == <<kAtCancel>>

(***************************************************************************)
(* State of Part XI: one job of the web server and the cancel requests.    *)
(***************************************************************************)
VARIABLES
    jStatus,   \* state.jobs[job_id]["status"], "none" before create_job
    jEvent,    \* state.cancel_events[job_id].is_set()
    jpc,       \* the job thread: "idle" | "created" | "run" | "ran" | "raised" | "done"
    jSymIx,    \* service.run(): the symbol its loop is at
    jFiles,    \* len(observer.output_files)
    jhpc,      \* the cancel route: "idle" | "checked" | "set"
    jCancels   \* cancel requests handled so far

jvars == <<jStatus, jEvent, jpc, jSymIx, jFiles, jhpc, jCancels>>

(***************************************************************************)
(* State of Part XII: one validate_output call on an output file.          *)
(***************************************************************************)
VARIABLES
    vHeader,   \* the file's first line: "candle" | "tick" header, or "none"
               \* when the file was written without one
    vUnread,   \* the data rows of the file not yet read
    vData,     \* history: the data rows of the file
    vpc,       \* "idle" | "open" | "rows" | "after" | "except" | "returned" | "raised"
    vExc,      \* the exception on its way out of the try block
    vRowCount, \* row_count
    vPrev,     \* prev_time, <<>> for None
    vCounts,   \* out_of_order_count, duplicate_count, bad_ohlc_count, zero_price_count
    vIssues,   \* len(results['issues'])
    vRet,      \* the returned results: total_rows, valid, fatal
    vTruth     \* history: the rows read whose time parsed, and whether a
               \* row was read with a non-positive price or an invalid
               \* OHLC that no count took in

vvars == <<vHeader, vUnread, vData, vpc, vExc, vRowCount, vPrev, vCounts, vIssues, vRet, vTruth>>

(***************************************************************************)
(* State of Part XIII: one decompress call on a day's hourly blobs.        *)
(***************************************************************************)
VARIABLES
    uList,     \* hourly_data_list: (hour, blob) pairs
    uIx,       \* the pair the loop is at
    uAll,      \* all_ticks
    uRet,      \* the list returned
    upc        \* "idle" | "loop" | "sort" | "returned"

uvars == <<uList, uIx, uAll, uRet, upc>>

(***************************************************************************)
(* State of Part XIV: the state file under two symbol runs that share an   *)
(* output directory.                                                       *)
(***************************************************************************)
VARIABLES
    tFile,     \* .download_state.json: per symbol the number of days its
               \* entry lists, NoEntry when it has none
    tLock,     \* per run: the thread holding the run's `lock`, 0 when free
    tpc,       \* per thread: "idle" | "locked" | "read" | "written" | "done"
    tLocal,    \* per thread: the `state` dict it loaded
    tDone,     \* per run: len(completed_list)
    tLost      \* history: did a write undo the entry of another symbol?

tvars == <<tFile, tLock, tpc, tLocal, tDone, tLost>>

(***************************************************************************)
(* State of Part XV: the temporary directory of one symbol run.            *)
(***************************************************************************)
VARIABLES
    yNative,   \* use_native
    ypc,       \* "idle" | "new" | "work" | "merge" | "exit"
    yDir,      \* does csv_dumper.temp_dir exist?
    yDays,     \* the days whose future the as_completed loop has handled
    yParts,    \* the .part files in the directory
    yCancel,   \* self._cancel_event
    yOut,      \* has the final CSV been written?
    yExit      \* how the run ended: "none" | "success" | "failure" | "cancelled"

yvars == <<yNative, ypc, yDir, yDays, yParts, yCancel, yOut, yExit>>

(***************************************************************************)
(* State of Part XVI: the notifications of one symbol run.                 *)
(***************************************************************************)
VARIABLES
    nNative,   \* use_native
    nTotal,    \* total_days resp. len(pending_days)
    npc,       \* "idle" | "begin" | "loop" | "fetch" | "dump" | "finished" | "end"
    nHandled,  \* the futures the as_completed loop has handled
    nCount,    \* completed_count
    nLog       \* the calls the observer got, in order

nvars == <<nNative, nTotal, npc, nHandled, nCount, nLog>>

\* Everything outside Parts I and II.
xvars == <<dvars, gvars, svars, cmvars, avars, zvars, hvars, kvars, jvars, vvars, uvars, tvars, yvars, nvars>>

(***************************************************************************)
(* Part I.  core/fetch.py                                                  *)
(***************************************************************************)

\* config/settings.py: DOWNLOAD_ATTEMPTS
DOWNLOAD_ATTEMPTS == 10

\* The hours a call may be for (fetch_day_async passes range(24); two of
\* them are enough to see that the hour is passed through).
Hours == {0, 23}

\* Non-empty response bodies the server may send with a 200.
Bodies == {"DATA", "RECOVERED"}

\* Python's b"".
EmptyBytes == ""

\* What one session.get can end in: an HTTP status, asyncio.TimeoutError,
\* or an aiohttp.ClientError / OSError.  The text of a client error is
\* str(e); a proxy answering CONNECT with 503 yields a ClientHttpProxyError
\* whose text holds "503", every other client error here does not.
\* A transport failure while the body of a 200 is read is one of the two
\* exception outcomes (the except clauses cover `await resp.read()` too).
Statuses == {200, 404, 500, 502, 503, 504, 403, 429}
Outcomes ==
    [kind : {"http"}, status : Statuses]
        \cup {[kind |-> "timeout", status |-> 0],
              [kind |-> "client", status |-> 0],
              [kind |-> "client", status |-> 503]}

\* last_error values: None, f"HTTP {resp.status}", "timeout", str(e).
NoError == [kind |-> "none", status |-> 0]

\* The test `last_error and "503" in last_error` (fetch.py:80): the text
\* "HTTP <status>" of a three-digit status holds "503" exactly when the
\* status is 503; "timeout" never does; a client error's text does when
\* it names the status 503.
Has503(e) == e.kind \in {"http", "client"} /\ e.status = 503

VARIABLES
    fHour,       \* the `hour` argument
    fAttempt,    \* the loop variable `attempt` (number of iterations begun)
    fLastError,  \* last_error
    fRequests,   \* number of session.get calls issued (session.get.call_count)
    fState,      \* "running" | "returned" | "raised"
    fResult,     \* the returned (hour, bytes) pair, <<>> while none
    fLead503,    \* history: how many of the first responses were 503 in a row
    fN503,       \* history: number of HTTP 503 responses received
    fFirst       \* history: the first 200/404 response, at = its position

fvars == <<fHour, fAttempt, fLastError, fRequests, fState, fResult,
           fLead503, fN503, fFirst>>

\* The whole state.
vars == <<fvars, ovars, xvars>>

\* What the actions of Parts III to VI leave alone.
DayFrame == <<fvars, ovars, gvars, svars, cmvars, avars, zvars, hvars, kvars, jvars, vvars, uvars, tvars, yvars, nvars>>
GenFrame == <<fvars, ovars, dvars, svars, cmvars, avars, zvars, hvars, kvars, jvars, vvars, uvars, tvars, yvars, nvars>>
SourceFrame == <<fvars, ovars, dvars, gvars, cmvars, avars, zvars, hvars, kvars, jvars, vvars, uvars, tvars, yvars, nvars>>
MergerFrame == <<fvars, ovars, dvars, gvars, svars, avars, zvars, hvars, kvars, jvars, vvars, uvars, tvars, yvars, nvars>>
AssemblyFrame == <<fvars, ovars, dvars, gvars, svars, cmvars, zvars, hvars, kvars, jvars, vvars, uvars, tvars, yvars, nvars>>
LzmaFrame == <<fvars, ovars, dvars, gvars, svars, cmvars, avars, hvars, kvars, jvars, vvars, uvars, tvars, yvars, nvars>>
FetchDayFrame == <<fvars, ovars, dvars, gvars, svars, cmvars, avars, zvars, kvars, jvars, vvars, uvars, tvars, yvars, nvars>>
FetchCancelFrame == <<fvars, ovars, dvars, gvars, svars, cmvars, avars, zvars, hvars, jvars, vvars, uvars, tvars, yvars, nvars>>
CancelOtherFrame == <<fvars, dvars, gvars, svars, cmvars, avars, zvars, hvars, jvars, vvars, uvars, tvars, yvars, nvars>>
JobFrame == <<fvars, ovars, dvars, gvars, svars, cmvars, avars, zvars, hvars, kvars, vvars, uvars, tvars, yvars, nvars>>
ValidateFrame == <<fvars, ovars, dvars, gvars, svars, cmvars, avars, zvars, hvars, kvars, jvars, uvars, tvars, yvars, nvars>>
DecompressFrame == <<fvars, ovars, dvars, gvars, svars, cmvars, avars, zvars, hvars, kvars, jvars, vvars, tvars, yvars, nvars>>
StateFileFrame == <<fvars, ovars, dvars, gvars, svars, cmvars, avars, zvars, hvars, kvars, jvars, vvars, uvars, yvars, nvars>>
TempDirFrame == <<fvars, ovars, dvars, gvars, svars, cmvars, avars, zvars, hvars, kvars, jvars, vvars, uvars, tvars, nvars>>
ObserverFrame == <<fvars, ovars, dvars, gvars, svars, cmvars, avars, zvars, hvars, kvars, jvars, vvars, uvars, tvars, yvars>>

NoFinal == [at |-> 0, status |-> 0, body |-> EmptyBytes]

FetchInit ==
    /\ fHour \in Hours
    /\ fAttempt = 0
    /\ fLastError = NoError
    /\ fRequests = 0
    /\ fState = "running"
    /\ fResult = <<>>
    /\ fLead503 = 0
    /\ fN503 = 0
    /\ fFirst = NoFinal

\* May the loop `for attempt in range(DOWNLOAD_ATTEMPTS)` run once more?
LoopRunsOnceMore == fState = "running" /\ fAttempt <= DOWNLOAD_ATTEMPTS
LoopRunsForever == fState = "running"
LoopRuns == fState = "running" /\ fAttempt < DOWNLOAD_ATTEMPTS

\* Does this response end the call (fetch.py:49-54)?
IsFinalOnly200(r) == r.kind = "http" /\ r.status = 200
IsFinalOnly404(r) == r.kind = "http" /\ r.status = 404
IsFinal(r) == r.kind = "http" /\ r.status \in {200, 404}

\* One iteration of the retry loop: session.get, the dispatch on the
\* outcome, and the backoff sleep (fetch.py:35-77).
Attempt(r, body) ==
    /\ LoopRuns
    /\ fRequests' = fRequests + 1
    /\ fAttempt' = fAttempt + 1
    /\ fN503' = IF r.kind = "http" /\ r.status = 503 THEN fN503 + 1 ELSE fN503
    /\ fLead503' = IF r.kind = "http" /\ r.status = 503 /\ fLead503 = fRequests
                      THEN fLead503 + 1 ELSE fLead503
    /\ fFirst' = IF fFirst = NoFinal /\ r.kind = "http" /\ r.status \in {200, 404}
                    THEN [at |-> fRequests + 1, status |-> r.status,
                          body |-> IF r.status = 200 THEN body ELSE EmptyBytes]
                    ELSE fFirst
    /\ IF IsFinal(r)
         THEN /\ fState' = "returned"
              /\ fResult' = <<fHour, IF r.status = 200 THEN body ELSE EmptyBytes>>
              /\ fLastError' = fLastError
         ELSE /\ fState' = fState
              /\ fResult' = fResult
              /\ fLastError' = r
    /\ UNCHANGED fHour
    /\ UNCHANGED <<ovars, xvars>>

\* After the loop (fetch.py:79-85): raise BackoffError or return empty.
Exhausted ==
    /\ fState = "running"
    /\ ~LoopRuns
    /\ IF fLastError # NoError /\ Has503(fLastError)
         THEN fState' = "raised" /\ fResult' = fResult
         ELSE fState' = "returned" /\ fResult' = <<fHour, EmptyBytes>>
    /\ UNCHANGED <<fHour, fAttempt, fLastError, fRequests, fLead503, fN503, fFirst>>
    /\ UNCHANGED <<ovars, xvars>>

FetchNext ==
    \/ \E r \in Outcomes, body \in Bodies : Attempt(r, body)
    \/ Exhausted

(***************************************************************************)
(* Claims about download_hour.                                             *)
(***************************************************************************)

\* C1: when the first n responses (1 <= n < DOWNLOAD_ATTEMPTS) are 503 and
\* the next one is a 200 with a non-empty body, the call has returned
\* (hour, that body) and exactly n+1 requests were ever issued.
C1_Retry503ThenOk ==
    (/\ fLead503 >= 1
     /\ fLead503 < DOWNLOAD_ATTEMPTS
     /\ fFirst.at = fLead503 + 1
     /\ fFirst.status = 200)
    => /\ fState = "returned"
       /\ fResult = <<fHour, fFirst.body>>
       /\ fFirst.body \in Bodies
       /\ fRequests = fLead503 + 1

\* The scenario of the spec: three 503 answers, then the 200.
C1_Witness ==
    /\ fLead503 = 3
    /\ fFirst.at = 4
    /\ fFirst.status = 200
    /\ fState = "returned"
    /\ fRequests = 4

\* C2: when every one of the DOWNLOAD_ATTEMPTS requests is answered 503 the
\* call raises BackoffError (it never returns, and the raise is the only
\* step left), after exactly DOWNLOAD_ATTEMPTS requests: an all-503 call
\* never raises earlier and never issues another request.
C2_All503Raises ==
    /\ (fState = "raised" /\ fLead503 = fRequests) => fRequests = DOWNLOAD_ATTEMPTS
    /\ fLead503 >= DOWNLOAD_ATTEMPTS =>
          /\ fRequests = DOWNLOAD_ATTEMPTS
          /\ fState \in {"running", "raised"}
          /\ fState = "running" => (ENABLED Exhausted /\ Has503(fLastError))

C2_Witness ==
    /\ fState = "raised"
    /\ fLead503 = DOWNLOAD_ATTEMPTS
    /\ fRequests = DOWNLOAD_ATTEMPTS

\* C3 (as claimed): once all attempts are exhausted, BackoffError is raised
\* if and only if the failed attempts are dominated by 503 responses (more
\* than half of them were 503); every other exhaustion returns empty bytes.
C3_RaisedIffDominatedBy503 ==
    (fState # "running" /\ fFirst = NoFinal /\ fRequests = DOWNLOAD_ATTEMPTS)
    => /\ (fState = "raised") <=> (2 * fN503 > DOWNLOAD_ATTEMPTS)
       /\ fState = "returned" => fResult = <<fHour, EmptyBytes>>

\* C4: the first 200 response ends the call with (hour, body), the first 404
\* response ends it with (hour, empty); no request is issued after it.
C4_FirstFinalResponseReturns ==
    fFirst # NoFinal
    => /\ fState = "returned"
       /\ fRequests = fFirst.at
       /\ fResult = <<fHour, IF fFirst.status = 200 THEN fFirst.body ELSE EmptyBytes>>
       /\ fFirst.status = 200 => fFirst.body # EmptyBytes

\* A 404 that follows two failed attempts ended the call without a retry.
C4_Witness ==
    /\ fFirst.status = 404
    /\ fFirst.at = 3
    /\ fState = "returned"
    /\ fResult = <<fHour, EmptyBytes>>
    /\ fRequests = 3

\* C40: every download_hour call ends, whatever the responses and transport
\* errors are: it never issues more than DOWNLOAD_ATTEMPTS requests, and it
\* ends in exactly one of (hour, bytes), (hour, empty) or BackoffError, the
\* persistent-throttling signal.
C40_OneOfThreeOutcomes ==
    /\ fRequests <= DOWNLOAD_ATTEMPTS
    /\ fState \in {"running", "returned", "raised"}
    /\ fState = "running" => fResult = <<>>
    /\ fState = "raised" => fResult = <<>>
    /\ fState = "returned" =>
          /\ fResult # <<>>
          /\ fResult[1] = fHour
          /\ fResult[2] \in Bodies \cup {EmptyBytes}

AllSymbols == {"EURUSD", "GBPUSD"}

\* The dates _generate_days yields for the configured range are numbered
\* 1..numDays in ascending order (consecutive calendar days, none of them a
\* Saturday or today).  Range lengths tried: NumDays for a run of one
\* symbol, ShortRange for a run of two symbols, LongRange for a run of one
\* symbol that is long enough for the breaker to be armed twice.
NumDays == 3
ShortRange == 2
LongRange == 4
Days == 1..LongRange

\* config.threads
NumThreads == 2

\* service.py:218  time.time() + 60
CircuitDelay == 60

\* service.py:245  (completed_count + 1) % 5
SaveEvery == 5

\* The clock advances in steps of TimeStep seconds, up to MaxTime.
TimeStep == 30
MaxTime == 120

\* A state-file entry, an output file and a temp directory either do not
\* exist or hold a set of days.
NoEntry == [exists |-> FALSE, days |-> {}]
NoFile == [exists |-> FALSE, days |-> {}]
NoDir == [exists |-> FALSE, days |-> {}]
Holding(S) == [exists |-> TRUE, days |-> S]

\* The ranges tried: one that holds 1 January as its second date, one that
\* holds no holiday.
HolidayStart == [m |-> 12, d |-> 31]
PlainStart == [m |-> 1, d |-> 2]
StartDates == {HolidayStart, PlainStart}

\* The calendar date of the range's i-th day (the ranges above stay within
\* December 31 .. January).
DateOf(start, i) ==
    IF start.m = 12
      THEN IF i = 1 THEN start ELSE [m |-> 1, d |-> i - 1]
      ELSE [m |-> start.m, d |-> start.d + i - 1]

\* utils/market.py is_market_holiday
IsMarketHoliday(dt) ==
    \/ dt.m = 1 /\ dt.d = 1
    \/ dt.m = 12 /\ dt.d = 25

\* all_days (service.py:103) and the holidays among them.
AllDays == 1..numDays
Holidays == {d \in AllDays : IsMarketHoliday(DateOf(startDate, d))}

\* utils/resume.py load_state: the completed dates of the symbol's entry,
\* the empty set when the file or the entry is missing.
LoadState(s) ==
    IF jobState.file /\ jobState.entry[s].exists THEN jobState.entry[s].days ELSE {}

\* No state file.
NoState == [file |-> FALSE, entry |-> [s \in AllSymbols |-> NoEntry]]

\* utils/resume.py save_state: read the file if there is one, replace the
\* symbol's entry, write the file.
SaveState(js, s, completed) ==
    [file |-> TRUE,
     entry |-> [(IF js.file THEN js.entry ELSE NoState.entry)
                   EXCEPT ![s] = Holding(completed)]]

\* utils/resume.py clear_state(output_dir, symbol): nothing without a file;
\* else delete the symbol's entry if there is one, and write the file back
\* if an entry is left, remove it if none is.
ClearStateWholeFile(js, s) == NoState
ClearState(js, s) ==
    IF ~js.file THEN js
    ELSE LET left == [js.entry EXCEPT ![s] = NoEntry]
         IN IF \E u \in AllSymbols : left[u].exists
              THEN [file |-> TRUE, entry |-> left]
              ELSE NoState

\* An ascending sequence of the elements of a set of days.
RECURSIVE SortedSeq(_)
SortedSeq(S) ==
    IF S = {} THEN <<>>
    ELSE LET m == CHOOSE x \in S : \A y \in S : x <= y
         IN <<m>> \o SortedSeq(S \ {m})

\* service.py:152-170: pending_days after the resume filter and the holiday
\* filter, in the order of all_days.
PendingDaysNoResume(s) ==
    SortedSeq({d \in AllDays : ~IsMarketHoliday(DateOf(startDate, d))})
PendingDaysOf(res, s) ==
    LET completed == IF res THEN LoadState(s) ELSE {}
    IN SortedSeq({d \in AllDays : /\ d \notin completed
                                 /\ ~IsMarketHoliday(DateOf(startDate, d))})
PendingDays(s) == PendingDaysOf(resume, s)

\* The partial files an earlier, interrupted run left for the symbol, in
\* that run's own temp directory (csv_dumper.py:58 names the directory by
\* the second the dumper is made): one for every day it recorded.
OldParts(s) == priorState.entry[s].days

\* The symbol run() is at.
CurSym == symbols[symIx]
Submitted == {pending[i] : i \in 1..(subIx - 1)}
InFlight == {d \in Days : wpc[d] \in {"reset", "fetch"}}

\* The state files an earlier, interrupted run may have left: none, or one
\* symbol's entry (a run clears a symbol's entry before it starts the next
\* symbol), holding the first day or every day of this range.
PriorSets(n) == {{1}, 1..n}
PriorStates(n) ==
    {NoState}
      \cup {[file |-> TRUE,
              entry |-> [s \in AllSymbols |-> IF s = t THEN Holding(c) ELSE NoEntry]] :
              t \in AllSymbols, c \in PriorSets(n)}

NoHist == [inWindow |-> {},       \* days whose do_work began within 60 s of
                                  \* the breaker being armed (service.py:217)
           lateStart |-> {},      \* days whose do_work began with cancel set
           fetched |-> {},        \* days fetch_day was called for
           atCancel |-> {},       \* days whose do_work was running when cancel was set
           abandoned |-> {},      \* days not done when their _process_ticks returned
           failed |-> {},         \* days whose do_work ran and returned False
                                  \* (not the no-ops of a cancelled run)
           spillFailed |-> {},    \* symbols for which a partial could not be written
           savedAt |-> {},        \* values of completed_count at the save_state calls
           lateSyms |-> {},       \* symbols taken by run() with cancel set
           cancelledSyms |-> {},  \* symbols whose run saw cancel set at its end
           finishedSyms |-> {}]   \* symbols whose _process_ticks has returned

\* What every run starts from, whatever its configuration.
RunStart ==
    /\ cancel = FALSE
    /\ circuitOpen = FALSE
    /\ circuitResetTime = 0
    /\ now = 0
    /\ priorState = jobState
    /\ output = [s \in AllSymbols |-> NoFile]
    /\ tempDir = [s \in AllSymbols |-> NoDir]
    /\ symIx = 1
    /\ mpc = "run"
    /\ pending = <<>>
    /\ subIx = 1
    /\ wpc = [d \in Days |-> "none"]
    /\ wres = [d \in Days |-> FALSE]
    /\ collected = {}
    /\ completedList = {}
    /\ completedCount = 0
    /\ hist = NoHist

\* A run of one symbol over NumDays days: resume on or off, any of the
\* earlier state files, a range with or without a holiday.
OrchInit ==
    /\ symbols = <<"EURUSD">>
    /\ numDays = NumDays
    /\ resume \in BOOLEAN
    /\ startDate \in StartDates
    /\ jobState \in PriorStates(NumDays)
    /\ RunStart

\* A run of two symbols over ShortRange days.
MultiInit ==
    /\ symbols = <<"EURUSD", "GBPUSD">>
    /\ numDays = ShortRange
    /\ resume \in BOOLEAN
    /\ startDate = PlainStart
    /\ jobState = NoState
    /\ RunStart

\* A run of one symbol over LongRange days, without resume.
BreakerInit ==
    /\ symbols = <<"EURUSD">>
    /\ numDays = LongRange
    /\ resume = FALSE
    /\ startDate = PlainStart
    /\ jobState = NoState
    /\ RunStart

\* ---------------------------------------------------------------- run()

\* service.py:110-112: the loop over the symbols and its cancellation test.
SymbolLoopGoesOn == symIx <= Len(symbols) /\ ~cancel

\* The locals of _process_ticks, gone when it returns.
NoLocals ==
    /\ pending' = <<>>
    /\ subIx' = 1
    /\ wpc' = [d \in Days |-> "none"]
    /\ wres' = [d \in Days |-> FALSE]
    /\ collected' = {}
    /\ completedList' = {}
    /\ completedCount' = 0

\* service.py:110-118 and 150-190: the next symbol of run()'s loop is taken
\* and _process_ticks runs up to the thread pool (the files it reads there
\* are touched by no other thread of the run).
RunLoop ==
    /\ mpc = "run"
    /\ IF ~SymbolLoopGoesOn
         THEN /\ mpc' = "done"
              /\ UNCHANGED <<symIx, tempDir, pending, subIx, wpc, wres, collected,
                             completedList, completedCount, hist>>
         ELSE IF PendingDays(CurSym) = <<>>
         THEN \* "All days already downloaded": return
              /\ mpc' = "run"
              /\ symIx' = symIx + 1
              /\ hist' = [hist EXCEPT !.finishedSyms = @ \cup {CurSym},
                                      !.lateSyms = IF cancel THEN @ \cup {CurSym} ELSE @]
              /\ UNCHANGED <<tempDir, pending, subIx, wpc, wres, collected,
                             completedList, completedCount>>
         ELSE /\ mpc' = "submit"
              /\ symIx' = symIx
              /\ pending' = PendingDays(CurSym)
              \* CSVDumper.__init__: a fresh directory named by the start second
              /\ tempDir' = [tempDir EXCEPT ![CurSym] = Holding({})]
              /\ completedList' = IF resume THEN LoadState(CurSym) ELSE {}
              /\ hist' = [hist EXCEPT !.lateSyms = IF cancel THEN @ \cup {CurSym} ELSE @,
                                      !.inWindow = {}, !.lateStart = {},
                                      !.fetched = {}, !.atCancel = {},
                                      !.savedAt = {}, !.failed = {}]
              /\ UNCHANGED <<subIx, wpc, wres, collected, completedCount>>
    /\ UNCHANGED <<symbols, numDays, resume, startDate, cancel, circuitOpen, circuitResetTime, now,
                   jobState, priorState, output>>
    /\ UNCHANGED <<fvars, xvars>>

\* service.py:226-234: one iteration of the submission loop.
Submit ==
    /\ mpc = "submit"
    /\ IF subIx > Len(pending) \/ cancel
         THEN /\ mpc' = "collect"
              /\ UNCHANGED <<subIx, wpc>>
         ELSE /\ wpc' = [wpc EXCEPT ![pending[subIx]] = "queued"]
              /\ subIx' = subIx + 1
              /\ mpc' = mpc
    /\ UNCHANGED <<symbols, numDays, resume, startDate, cancel, circuitOpen, circuitResetTime, now,
                   jobState, priorState, output, tempDir, symIx, pending,
                   wres, collected, completedList, completedCount, hist>>
    /\ UNCHANGED <<fvars, xvars>>

\* service.py:245: is the state saved after this completion?
SaveDue(count) == (count + 1) % SaveEvery = 0

\* service.py:236-248: one iteration of the as_completed loop, for the
\* finished future of day d.
Collect(d) ==
    /\ mpc = "collect"
    /\ d \in Submitted \ collected
    /\ wpc[d] = "done"
    /\ IF cancel
         THEN /\ mpc' = "join"
              /\ UNCHANGED <<collected, completedCount, jobState, hist>>
         ELSE /\ mpc' = mpc
              /\ collected' = collected \cup {d}
              /\ completedCount' = IF wres[d] THEN completedCount + 1 ELSE completedCount
              /\ jobState' = IF SaveDue(completedCount')
                               THEN SaveState(jobState, CurSym, completedList)
                               ELSE jobState
              /\ hist' = IF SaveDue(completedCount')
                           THEN [hist EXCEPT !.savedAt = @ \cup {completedCount'}]
                           ELSE hist
    /\ UNCHANGED <<symbols, numDays, resume, startDate, cancel, circuitOpen, circuitResetTime, now,
                   priorState, output, tempDir, symIx, pending, subIx,
                   wpc, wres, completedList>>
    /\ UNCHANGED <<fvars, xvars>>

\* CSVDumper.dump (csv_dumper.py:187-233): the merged days, in the order of
\* sorted(glob(temp_dir/*.part)); the partials of other directories are
\* not read.
Dump(s) == Holding(tempDir[s].days)

\* service.py:224: leaving the `with` block calls shutdown(wait=True), which
\* returns once every submitted call has run.
NotDone == {d \in Submitted : wpc[d] # "done"}
PoolDrained == NotDone = {}

\* service.py:250: the test that ends a cancelled symbol without a merge.
SkipsMerge == cancel

\* service.py:224, 250-256: the as_completed loop is over (exhausted, or
\* left by `break`); leaving the `with ThreadPoolExecutor` block waits for
\* every submitted future (shutdown(wait=True)); then the cancellation
\* test, the final merge, on_finish and clear_state.
Finish ==
    /\ \/ mpc = "join"
       \/ mpc = "collect" /\ Submitted \subseteq collected
    /\ PoolDrained
    /\ IF SkipsMerge
         THEN \* "Download cancelled.": return
              /\ hist' = [hist EXCEPT !.cancelledSyms = @ \cup {CurSym},
                                      !.finishedSyms = @ \cup {CurSym},
                                      !.abandoned = @ \cup NotDone]
              /\ UNCHANGED <<output, tempDir, jobState>>
         ELSE /\ output' = [output EXCEPT ![CurSym] = Dump(CurSym)]
              /\ tempDir' = [tempDir EXCEPT ![CurSym] = NoDir]
              /\ jobState' = ClearState(jobState, CurSym)
              /\ hist' = [hist EXCEPT !.finishedSyms = @ \cup {CurSym},
                                      !.abandoned = @ \cup NotDone]
    /\ mpc' = "run"
    /\ symIx' = symIx + 1
    /\ NoLocals
    /\ UNCHANGED <<symbols, numDays, resume, startDate, cancel, circuitOpen, circuitResetTime, now,
                   priorState>>
    /\ UNCHANGED <<fvars, xvars>>

\* ------------------------------------------------------------- do_work

\* The pool runs the queued calls in submission order, at most
\* config.threads at a time.
CanStart(d) ==
    /\ wpc[d] = "queued"
    /\ Cardinality(InFlight) < NumThreads
    /\ \A i \in 1..(subIx - 1) :
          (pending[i] < d) => wpc[pending[i]] # "queued"

\* service.py:193: the cancellation test of do_work.
SeesCancelNever == FALSE
SeesCancel == cancel

\* service.py:192-199: do_work begins: the cancellation flag and the breaker
\* are read one after the other, without blocking.  While the breaker is
\* open and its reset time lies ahead the call returns False.
Start(d) ==
    /\ CanStart(d)
    /\ wpc' = [wpc EXCEPT ![d] =
                 IF SeesCancel THEN "done"
                 ELSE IF circuitOpen
                   THEN IF now < circuitResetTime THEN "done" ELSE "reset"
                   ELSE "fetch"]
    /\ hist' = [hist EXCEPT
                  !.lateStart = IF cancel THEN @ \cup {d} ELSE @,
                  !.failed = IF ~SeesCancel /\ circuitOpen /\ now < circuitResetTime
                               THEN @ \cup {d} ELSE @,
                  !.inWindow = IF now < circuitResetTime
                                 THEN @ \cup {d} ELSE @]
    /\ UNCHANGED <<symbols, numDays, resume, startDate, cancel, circuitOpen, circuitResetTime, now,
                   jobState, priorState, output, tempDir, symIx, mpc, pending, subIx,
                   wres, collected, completedList, completedCount>>
    /\ UNCHANGED <<fvars, xvars>>

\* service.py:201: self._circuit_open = False, written without the lock.
CircuitReset(d) ==
    /\ wpc[d] = "reset"
    /\ circuitOpen' = FALSE
    /\ wpc' = [wpc EXCEPT ![d] = "fetch"]
    /\ UNCHANGED <<symbols, numDays, resume, startDate, cancel, circuitResetTime, now,
                   jobState, priorState, output, tempDir, symIx, mpc, pending, subIx,
                   wres, collected, completedList, completedCount, hist>>
    /\ UNCHANGED <<fvars, xvars>>

\* What fetch_day + decompress + csv_dumper.append end in: ticks that are
\* spilled, no tick at all (every hour empty), BackoffError out of a
\* download_hour, another exception of fetch_day, or ticks whose partial
\* file cannot be written (OSError out of CSVDumper._write_chunk).
FetchOutcomes == {"ticks", "empty", "backoff", "error", "nospill"}

\* completed_list is a list when it was built by `completed_list = []`
\* (service.py:185) and the set load_state returned when resume is on
\* (service.py:187); a set has no append, so line 209 raises
\* AttributeError there, which `except Exception` (line 220) turns into
\* `return False`.
CompletedListIsList == ~resume

\* service.py:204-209: the outcomes with which do_work reaches
\* completed_list.append(day): fetch_day and decompress raised nothing.
ReachesAppendAlways(o) == TRUE
ReachesAppend(o) == o \in {"ticks", "empty"}

\* service.py:204-222: fetch_day and decompress end (they touch nothing
\* shared), then under the lock either csv_dumper.append writes the day's
\* partial (nothing when there are no ticks) and completed_list.append(day)
\* runs, or the BackoffError handler arms the breaker unless it is already
\* open, or `except Exception` returns False.
FetchDay(d, o) ==
    /\ wpc[d] = "fetch"
    /\ wpc' = [wpc EXCEPT ![d] = "done"]
    /\ tempDir' = IF o = "ticks"
                    THEN [tempDir EXCEPT ![CurSym] = Holding(@.days \cup {d})]
                    ELSE tempDir
    /\ completedList' = IF ReachesAppend(o) /\ CompletedListIsList
                          THEN completedList \cup {d} ELSE completedList
    /\ wres' = [wres EXCEPT ![d] = o \in {"ticks", "empty"} /\ CompletedListIsList]
    /\ hist' = [hist EXCEPT !.fetched = @ \cup {d},
                             !.failed = IF wres'[d] THEN @ ELSE @ \cup {d},
                             !.spillFailed = IF o = "nospill" THEN @ \cup {CurSym} ELSE @]
    /\ IF o = "backoff" /\ ~circuitOpen
         THEN /\ circuitOpen' = TRUE
              /\ circuitResetTime' = now + CircuitDelay
         ELSE UNCHANGED <<circuitOpen, circuitResetTime>>
    /\ UNCHANGED <<symbols, numDays, resume, startDate, cancel, now,
                   jobState, priorState, output, symIx, mpc, pending, subIx,
                   collected, completedCount>>
    /\ UNCHANGED <<fvars, xvars>>

\* ------------------------------------------------------- environment

\* service.py:74-76 cancel(), called from another thread or a signal handler.
Cancel ==
    /\ ~cancel
    /\ mpc # "done"
    /\ cancel' = TRUE
    /\ hist' = [hist EXCEPT !.atCancel = InFlight]
    /\ UNCHANGED <<symbols, numDays, resume, startDate, circuitOpen, circuitResetTime, now,
                   jobState, priorState, output, tempDir, symIx, mpc, pending, subIx,
                   wpc, wres, collected, completedList, completedCount>>
    /\ UNCHANGED <<fvars, xvars>>

\* Time passes.  The program reads the clock only at service.py:198 and
\* :218; once now >= _circuit_reset_time more time changes neither reading
\* (up to a shift of the origin), so the clock is advanced only while the
\* reset time lies ahead.
Tick ==
    /\ now < circuitResetTime
    /\ now + TimeStep <= MaxTime
    /\ now' = now + TimeStep
    /\ UNCHANGED <<symbols, numDays, resume, startDate, cancel, circuitOpen, circuitResetTime,
                   jobState, priorState, output, tempDir, symIx, mpc, pending, subIx,
                   wpc, wres, collected, completedList, completedCount, hist>>
    /\ UNCHANGED <<fvars, xvars>>

OrchNext ==
    \/ RunLoop
    \/ Submit
    \/ \E d \in Days : Collect(d)
    \/ Finish
    \/ \E d \in Days : Start(d)
    \/ \E d \in Days : CircuitReset(d)
    \/ \E d \in Days, o \in FetchOutcomes : FetchDay(d, o)
    \/ Cancel
    \/ Tick

(***************************************************************************)
(* Claims about the service.                                               *)
(***************************************************************************)

\* The symbol's _process_ticks is between its thread pool and its return.
InPool == mpc \in {"submit", "collect", "join"}

\* C5 (as claimed), its first half: a work item that starts within 60 s of
\* the persistent-throttling signal that armed the breaker returns failure
\* without issuing any fetch, under every interleaving of the worker
\* threads.  (hist.inWindow holds the days whose do_work began while
\* now < _circuit_reset_time, that is less than 60 s after the signal that
\* set the reset time.)
C5_StartInWindowNeverFetches ==
    InPool =>
      \A d \in hist.inWindow :
          /\ d \notin hist.fetched
          /\ wpc[d] = "done"
          /\ ~wres[d]

\* C6: once the cancellation flag is set, a work item that starts afterwards
\* is a no-op (no fetch, no partial file, result False), run() takes no
\* further symbol, and _process_ticks returns only when every submitted
\* work item has run to its end.
C6_CancelStopsNewWork ==
    /\ hist.lateSyms = {}
    /\ hist.abandoned = {}
    /\ InPool =>
         \A d \in hist.lateStart :
             /\ cancel
             /\ wpc[d] = "done"
             /\ ~wres[d]
             /\ d \notin hist.fetched
             /\ d \notin tempDir[CurSym].days

\* A cancelled run of two symbols: a day that was being fetched when cancel
\* was set has its partial file, a day that began afterwards did nothing,
\* and the second symbol was never taken.
C6_Witness ==
    /\ mpc = "done"
    /\ cancel
    /\ hist.lateStart # {}
    /\ hist.lateStart \cap hist.fetched = {}
    /\ hist.atCancel \cap tempDir["EURUSD"].days # {}
    /\ hist.finishedSyms = {"EURUSD"}
    /\ ~tempDir["GBPUSD"].exists

\* C7 (as claimed): a symbol whose run was cancelled still gets its final
\* merge over the partial files that exist, so its output file is produced.
C7_CancelledSymbolIsMerged ==
    \A s \in hist.cancelledSyms :
        /\ output[s].exists
        /\ output[s].days = tempDir[s].days

\* The trading days of the range that the state file did not hold when the
\* run began.
Remaining(s) == (AllDays \ Holidays) \ priorState.entry[s].days

\* C8: with resume on, no fetch is issued for a date of the symbol's
\* persisted completed set, and the work items are exactly the remaining
\* trading days of the range: pending_days lists them, only they are
\* submitted, and all of them are unless the run is cancelled.
C8_ResumeSkipsCompleted ==
    (resume /\ InPool) =>
        /\ hist.fetched \cap priorState.entry[CurSym].days = {}
        /\ hist.fetched \subseteq Remaining(CurSym)
        /\ pending = SortedSeq(Remaining(CurSym))
        /\ Submitted \subseteq Remaining(CurSym)
        /\ (mpc # "submit" /\ ~cancel) => Submitted = Remaining(CurSym)

\* A resumed run found day 1 recorded; days 2 and 3 were its work items, both
\* were fetched and collected, and day 1 was not touched.
C8_Witness ==
    /\ resume
    /\ priorState.entry["EURUSD"] = Holding({1})
    /\ startDate = PlainStart
    /\ mpc = "collect"
    /\ ~cancel
    /\ pending = <<2, 3>>
    /\ collected = {2, 3}
    /\ hist.fetched = {2, 3}

\* C9 (as claimed): after a resumed run of a symbol completes and has
\* written the symbol's output file, the file holds the rows of the days
\* the earlier, interrupted run completed as well as of the days the
\* resumed run spilled.
C9_ResumedOutputHoldsEarlierDays ==
    \A s \in hist.finishedSyms \ hist.cancelledSyms :
        (resume /\ output[s].exists) =>
            OldParts(s) \subseteq output[s].days

\* C10 (as claimed): with resume on, a day whose fetch, decode and spill all
\* succeeded is reported as a success and is in the completed collection.
C10_SpilledDayIsSuccess ==
    (resume /\ InPool) =>
        \A d \in tempDir[CurSym].days :
            /\ wres[d]
            /\ d \in completedList

\* C11 (as claimed): the completed-date set is persisted after every 5th
\* successfully completed day and at no other count: no save_state call is
\* made at a count that is not a positive multiple of 5 (none is early),
\* and once 5 days have completed a save was made at 5 (none is skipped).
C11_SavedAtEveryFifth ==
    InPool =>
        /\ \A c \in hist.savedAt : c > 0 /\ c % SaveEvery = 0
        /\ completedCount >= SaveEvery => SaveEvery \in hist.savedAt

\* The elements of a sequence.
Range(q) == {q[i] : i \in 1..Len(q)}

\* The symbol of a run of one symbol.
OnlySym == symbols[1]

\* The work items of the next run of the same symbol and range with resume
\* enabled, were it started on the state file as it is now
\* (service.py:152-170 with config.resume = True).
NextResumePending == Range(PendingDaysOf(TRUE, OnlySym))

\* Failed days that the state file did not already record as completed
\* when the run began.
FreshlyFailed == hist.failed \ priorState.entry[OnlySym].days

EndsNormally == output' # output

C15_SpillFailureIsFatal ==
    \A s \in hist.finishedSyms \cap hist.spillFailed :
        /\ ~output[s].exists
        /\ tempDir[s].exists

(***************************************************************************)
(* Part III.  One day: core/fetch.py fetch_day, core/processor.py          *)
(*            decompress, core/csv_dumper.py append.                       *)
(***************************************************************************)

\* The hours of the day (fetch_day_async starts range(24) of them).
NumHours == 3
DayHours == 0..(NumHours - 1)

\* How one download_hour call ends (Part I):
\*   "data"       200, a well-formed blob that holds ticks   (fetch.py:49-51)
\*   "malformed"  200, bytes whose first LZMA stream is malformed
\*   "missing"    404                                        (fetch.py:52-54)
\*   "skipped"    attempts exhausted, last error without 503 (fetch.py:84-85)
\*   "throttled"  attempts exhausted, BackoffError raised    (fetch.py:80-82)
HourEnds == {"data", "malformed", "missing", "skipped", "throttled"}

\* Does the call raise (fetch.py:80-82)?
HourRaisesOnAnyExhaustion(e) == e \in {"throttled", "skipped"}
HourRaises(e) == e = "throttled"

\* The bytes of the (hour, bytes) pair the call returns otherwise.
BlobOf(e) ==
    CASE e = "data" -> "LZMA"
      [] e = "malformed" -> "BAD"
      [] OTHER -> EmptyBytes

\* processor.py decompress_lzma on non-empty bytes: LZMAError on a malformed
\* first stream (processor.py:27-31).
LzmaRaises(b) == b = "BAD"

NoPart == [exists |-> FALSE, rows |-> <<>>]

DayInit ==
    /\ dGot = [h \in DayHours |-> "pending"]
    /\ dpc = "fetch"
    /\ dIx = 0
    /\ dTicks = <<>>
    /\ dPartial = NoPart
    /\ dOutcome = "none"

\* fetch.py:116: one of the gathered download_hour calls ends.
DownloadHour(h, e) ==
    /\ dpc = "fetch"
    /\ dGot[h] = "pending"
    /\ dGot' = [dGot EXCEPT ![h] = e]
    /\ UNCHANGED <<dpc, dIx, dTicks, dPartial, dOutcome>>
    /\ UNCHANGED DayFrame

\* fetch.py:122-124 and service.py:204, 212-219: asyncio.gather returns the
\* results once every call has returned, or passes on the first exception
\* a call raised; fetch_day then raises BackoffError into do_work, whose
\* handler returns False.
Gather ==
    /\ dpc = "fetch"
    /\ IF \E h \in DayHours : dGot[h] # "pending" /\ HourRaises(dGot[h])
         THEN /\ dpc' = "done"
              /\ dOutcome' = "backoff"
         ELSE /\ \A h \in DayHours : dGot[h] # "pending"
              /\ dpc' = "decode"
              /\ dOutcome' = dOutcome
    /\ UNCHANGED <<dGot, dIx, dTicks, dPartial>>
    /\ UNCHANGED DayFrame

\* processor.py:96-108: one iteration of decompress's loop, over the
\* results sorted by hour.
DecodeHour ==
    /\ dpc = "decode"
    /\ dIx \in DayHours
    /\ LET b == BlobOf(dGot[dIx])
       IN IF b = EmptyBytes
            THEN UNCHANGED <<dTicks, dpc, dOutcome>>             \* continue
            ELSE IF LzmaRaises(b)
              THEN \* `except Exception: pass` (processor.py:106-108)
                   UNCHANGED <<dTicks, dpc, dOutcome>>
              ELSE /\ dTicks' = Append(dTicks, dIx)
                   /\ UNCHANGED <<dpc, dOutcome>>
    /\ dIx' = dIx + 1
    /\ UNCHANGED <<dGot, dPartial>>
    /\ UNCHANGED DayFrame

\* processor.py:110-112 and csv_dumper.py:102-167: the ticks come back
\* sorted, CSVDumper.append writes the day's partial unless there is no
\* tick, and do_work goes on to completed_list.append(day).
Spill ==
    /\ dpc = "decode"
    /\ dIx \notin DayHours
    /\ dpc' = "done"
    /\ dPartial' = IF dTicks = <<>> THEN dPartial
                                   ELSE [exists |-> TRUE, rows |-> dTicks]
    /\ dOutcome' = IF dTicks = <<>> THEN "empty" ELSE "ticks"
    /\ UNCHANGED <<dGot, dIx, dTicks>>
    /\ UNCHANGED DayFrame

DayNext ==
    \/ \E h \in DayHours, e \in HourEnds : DownloadHour(h, e)
    \/ Gather
    \/ DecodeHour
    \/ Spill

\* C13 (as claimed): a day with a decode-fatal hourly blob is marked not
\* completed: its pipeline does not end as a success and does not reach
\* completed_list.append.
C13_MalformedHourFailsDay ==
    (dpc = "done" /\ \E h \in DayHours : dGot[h] = "malformed")
        => ~ReachesAppend(dOutcome)

SATURDAY == 5

\* Dates are proleptic ordinals 1..MaxDate (ordinal 1 is a Monday); today
\* may also lie after all of them.
MaxDate == 9
GenDates == 1..MaxDate

\* date.weekday(): Monday is 0, Sunday is 6.
Weekday(n) == (n + 6) % 7
IsSunday(n) == Weekday(n) = SATURDAY + 1

\* service.py:97: is `current` yielded?
YieldsWorkdaysOnly(n) == Weekday(n) < SATURDAY /\ n # gToday
Yields(n) == Weekday(n) # SATURDAY /\ n # gToday

GenInit ==
    /\ gStart \in GenDates
    /\ gEnd \in GenDates
    /\ gToday \in 1..(MaxDate + 1)
    /\ gCurrent = gStart
    /\ gOut = <<>>
    /\ gpc = "run"

\* service.py:96-99: one test of the while condition and, when it holds,
\* one iteration of the loop.
GenStep ==
    /\ gpc = "run"
    /\ IF gCurrent <= gEnd
         THEN /\ gOut' = IF Yields(gCurrent) THEN Append(gOut, gCurrent) ELSE gOut
              /\ gCurrent' = gCurrent + 1
              /\ gpc' = gpc
         ELSE /\ gpc' = "done"
              /\ UNCHANGED <<gOut, gCurrent>>
    /\ UNCHANGED <<gStart, gEnd, gToday>>
    /\ UNCHANGED GenFrame

GenNext == GenStep

\* The dates of the range that are neither a Saturday nor today.
Wanted == {n \in gStart..gEnd : Weekday(n) # SATURDAY /\ n # gToday}

\* C17 (amended): the generator yields exactly the dates d with
\* start <= d <= end that are not a Saturday and not today, in ascending
\* order; every Sunday of the range other than today is yielded, and
\* nothing is yielded when start > end.
C17_GeneratedDays ==
    gpc = "done" =>
        /\ gOut = SortedSeq(Wanted)
        /\ \A n \in gStart..gEnd :
              (IsSunday(n) /\ n # gToday) => n \in Range(gOut)
        /\ gStart > gEnd => gOut = <<>>

\* A week from Monday to the next Monday with today on the Wednesday: the
\* Saturday and today are left out, the Sunday is there.
C17_Witness ==
    /\ gpc = "done"
    /\ gStart = 1 /\ gEnd = 8 /\ gToday = 3
    /\ gOut = <<1, 2, 4, 5, 7, 8>>

\* C17 (as claimed): ... and every Sunday in the range is yielded.
C17_EverySundayYielded ==
    gpc = "done" =>
        /\ gOut = SortedSeq(Wanted)
        /\ \A n \in gStart..gEnd : IsSunday(n) => n \in Range(gOut)
        /\ gStart > gEnd => gOut = <<>>

(***************************************************************************)
(* Part V.  core/service.py _should_use_native and run(): which blobs a    *)
(*          request asks the server for.                                   *)
(***************************************************************************)

\* config/settings.py: DATA_SOURCE_CHOICES, TIMEFRAME_CHOICES,
\* NATIVE_CANDLE_TIMEFRAMES
Sources == {"auto", "tick", "native"}
Periods == {"TICK", "S1", "S10", "S30", "M1", "M2", "M3", "M4", "M5", "M10",
            "M15", "M30", "H1", "H4", "D1", "CUSTOM"}
NATIVE_CANDLE_TIMEFRAMES == {"M1", "H1", "D1"}

\* The ranges tried begin on 31 December, 1 January or 2 January and are
\* at most SrcDays long (no Saturday and not today among their dates).
SrcDays == 2
HolidayFirst == [m |-> 1, d |-> 1]
SourceStarts == StartDates \cup {HolidayFirst}
SourceDates == {DateOf(sStartDate, i) : i \in 1..sNumDays}

\* The year of a date of these ranges: the December dates lie in the year
\* before the January ones.
YearOf(dt) == IF dt.m = 12 THEN 0 ELSE 1

\* service.py:90: the test of the 'auto' branch.
AutoQualifiesNever(p) == FALSE
AutoQualifies(p) == p \in NATIVE_CANDLE_TIMEFRAMES /\ p # "TICK"

\* service.py:83-91 _should_use_native: "error" stands for the ValueError.
ShouldUseNative(src, p) ==
    IF src = "native"
      THEN IF p \notin NATIVE_CANDLE_TIMEFRAMES THEN "error" ELSE "native"
      ELSE IF src = "auto"
        THEN IF AutoQualifies(p) THEN "native" ELSE "ticks"
        ELSE "ticks"

\* A blob the server is asked for: the hourly tick blobs of one day, or a
\* candle blob of one day (M1), one month (H1, d = 0) or one year (D1,
\* m = 0 and d = 0).
TickBlob(dt) == [kind |-> "ticks", y |-> YearOf(dt), m |-> dt.m, d |-> dt.d]
CandleBlob(y, m, d) == [kind |-> "candles", y |-> y, m |-> m, d |-> d]

\* candle_fetch.py:125-178: _build_m1_urls, _build_h1_urls, _build_d1_urls.
NativePlan(p) ==
    CASE p = "M1" -> {CandleBlob(YearOf(dt), dt.m, dt.d) : dt \in SourceDates}
      [] p = "H1" -> {CandleBlob(YearOf(dt), dt.m, 0) : dt \in SourceDates}
      [] OTHER -> {CandleBlob(YearOf(dt), 0, 0) : dt \in SourceDates}

\* service.py:152-170, 226-230: the days _process_ticks submits (the
\* holiday filter applies on this path only).
TickPlan == {TickBlob(dt) : dt \in {x \in SourceDates : ~IsMarketHoliday(x)}}

\* The dates of the range on which a blob that holds data gives rows
\* (candle_fetch.py:250-252 keeps the candles of the range).
RowsOf(b) ==
    {dt \in SourceDates : /\ YearOf(dt) = b.y
                          /\ b.m \in {0, dt.m}
                          /\ b.d \in {0, dt.d}}

\* Is the blob that of one day which is a market holiday?
HolidayBlob(b) == b.d # 0 /\ IsMarketHoliday([m |-> b.m, d |-> b.d])

SourceInit ==
    /\ sSource \in Sources
    /\ sPeriod \in Periods
    /\ sStartDate \in SourceStarts
    /\ sNumDays \in 1..SrcDays
    /\ spc = "select"
    /\ sNative = FALSE
    /\ sPlan = {}
    /\ sFetched = {}
    /\ sRows = {}

\* service.py:101-118: run() asks _should_use_native and takes the native
\* or the tick path for the symbol; the ValueError leaves run().
Select ==
    /\ spc = "select"
    /\ LET use == ShouldUseNative(sSource, sPeriod)
       IN IF use = "error"
            THEN /\ spc' = "error"
                 /\ UNCHANGED <<sNative, sPlan>>
            ELSE /\ spc' = "fetch"
                 /\ sNative' = (use = "native")
                 /\ sPlan' = IF use = "native" THEN NativePlan(sPeriod) ELSE TickPlan
    /\ UNCHANGED <<sSource, sPeriod, sStartDate, sNumDays, sFetched, sRows>>
    /\ UNCHANGED SourceFrame

\* fetch_day (service.py:204) or _download_candle_file
\* (candle_fetch.py:217): one blob is requested; it holds data or not.
FetchBlob(b, data) ==
    /\ spc = "fetch"
    /\ b \in sPlan \ sFetched
    /\ sFetched' = sFetched \cup {b}
    /\ sRows' = IF data THEN sRows \cup RowsOf(b) ELSE sRows
    /\ UNCHANGED <<sSource, sPeriod, sStartDate, sNumDays, spc, sNative, sPlan>>
    /\ UNCHANGED SourceFrame

\* service.py:141 / 254: every blob was asked for, the output is written.
SourceDone ==
    /\ spc = "fetch"
    /\ sFetched = sPlan
    /\ spc' = "done"
    /\ UNCHANGED <<sSource, sPeriod, sStartDate, sNumDays, sNative, sPlan, sFetched, sRows>>
    /\ UNCHANGED SourceFrame

SourceNext ==
    \/ Select
    \/ \E b \in sPlan, data \in BOOLEAN : FetchBlob(b, data)
    \/ SourceDone

\* C18 (as claimed): for a request with period M1, no blob is fetched for a
\* date the holiday interface answers true for, and the output has no
\* rows dated on it.
C18_NoFetchOnHoliday ==
    (sPeriod = "M1" /\ spc \in {"fetch", "done"}) =>
        /\ \A b \in sFetched : ~HolidayBlob(b)
        /\ \A dt \in sRows : ~IsMarketHoliday(dt)

\* C19: NATIVE with a period outside {M1, H1, D1} is an error and nothing
\* is downloaded; NATIVE with a period of that set asks for candle blobs;
\* TICK asks for tick blobs whatever the period; AUTO asks for candle blobs
\* exactly when the period is in the set and for tick blobs otherwise.
C19_SourceSelection ==
    spc \in {"error", "fetch", "done"} =>
        /\ spc = "error" <=> (sSource = "native" /\ sPeriod \notin {"M1", "H1", "D1"})
        /\ spc = "error" => sPlan = {} /\ sFetched = {} /\ sRows = {}
        /\ spc # "error" =>
              /\ sNative => sPlan # {}
              /\ sFetched \subseteq sPlan
              /\ spc = "done" => sFetched = sPlan
              /\ sSource = "native" => \A b \in sPlan : b.kind = "candles"
              /\ sSource = "tick" => \A b \in sPlan : b.kind = "ticks"
              /\ sSource = "auto" =>
                    IF sPeriod \in {"M1", "H1", "D1"}
                      THEN \A b \in sPlan : b.kind = "candles"
                      ELSE \A b \in sPlan : b.kind = "ticks"

\* An AUTO request for H1 over two days has fetched the month's candle blob.
C19_Witness ==
    /\ spc = "done"
    /\ sSource = "auto"
    /\ sPeriod = "H1"
    /\ sStartDate = PlainStart
    /\ sNumDays = 2
    /\ sFetched = {CandleBlob(1, 1, 0)}

(***************************************************************************)
(* Part VI.  core/aggregator.py CandleMerger, as csv_dumper.dump drives    *)
(*           it over the rows of the sorted part files.                    *)
(***************************************************************************)

\* A row's price fields are the strings format_float writes: a whole
\* number of 1e-5 units.  Its volume field is a whole number of 1e-2
\* units (round(c[5], 2) of a native candle, an integer sum of tick
\* volumes).  float() of a field is held in units ten times finer.
MaxRows == 3
RowTimes == {1, 2}
RowPrices == {1, 2}
RowVolumes == {1, 2}

\* None
NoRow == [time |-> 0, open |-> 0, high |-> 0, low |-> 0, close |-> 0, volume |-> 0]

\* The rows a part file can hold (core/candle.py: low <= open, close <= high).
Rows ==
    {r \in [time : RowTimes, open : RowPrices, high : RowPrices,
            low : RowPrices, close : RowPrices, volume : RowVolumes] :
        /\ r.low <= r.open /\ r.open <= r.high
        /\ r.low <= r.close /\ r.close <= r.high}

\* float(s)
ParseFloat(s) == s * 10
\* format(x, '.5f')
FormatPrice(x) == (x + 5) \div 10
\* str(round(x, 2))
FormatVolume(x) == (x + 5) \div 10

\* aggregator.py:56 max(h1, h2)
MaxKeepsFirst(a, b) == a
Max(a, b) == IF a >= b THEN a ELSE b
\* aggregator.py:57 min(l1, l2)
Min(a, b) == IF a <= b THEN a ELSE b

\* aggregator.py:37-63 _merge
MergeKeepsFirst(r1, r2) == r1
Merge(r1, r2) ==
    LET h1 == ParseFloat(r1.high)
        l1 == ParseFloat(r1.low)
        v1 == ParseFloat(r1.volume)
        h2 == ParseFloat(r2.high)
        l2 == ParseFloat(r2.low)
        v2 == ParseFloat(r2.volume)
    IN [time |-> r1.time,
        open |-> r1.open,
        high |-> FormatPrice(Max(h1, h2)),
        low |-> FormatPrice(Min(l1, l2)),
        close |-> r2.close,
        volume |-> FormatVolume(v1 + v2)]

MergerInit ==
    /\ cmIn = <<>>
    /\ cmLast = NoRow
    /\ cmOut = <<>>
    /\ cmRet = NoRow
    /\ cmFlush = NoRow
    /\ cmpc = "feeding"

\* aggregator.py:11-31 feed, and csv_dumper.py:216-218: dump writes what
\* feed returns.  The rows come in chronological order.
Feed(row) ==
    /\ cmpc = "feeding"
    /\ Len(cmIn) < MaxRows
    /\ IF cmIn = <<>> THEN TRUE ELSE cmIn[Len(cmIn)].time <= row.time
    /\ cmIn' = Append(cmIn, row)
    /\ IF cmLast = NoRow
         THEN /\ cmLast' = row
              /\ cmRet' = NoRow
         ELSE IF row.time = cmLast.time
           THEN /\ cmLast' = Merge(cmLast, row)
                /\ cmRet' = NoRow
           ELSE /\ cmRet' = cmLast
                /\ cmLast' = row
    /\ cmOut' = IF cmRet' # NoRow THEN Append(cmOut, cmRet') ELSE cmOut
    /\ UNCHANGED <<cmFlush, cmpc>>
    /\ UNCHANGED MergerFrame

\* aggregator.py:33-35 flush, and csv_dumper.py:221-224.
Flush ==
    /\ cmpc = "feeding"
    /\ cmFlush' = cmLast
    /\ cmOut' = IF cmFlush' # NoRow THEN Append(cmOut, cmFlush') ELSE cmOut
    /\ cmpc' = "flushed"
    /\ UNCHANGED <<cmIn, cmLast, cmRet>>
    /\ UNCHANGED MergerFrame

MergerNext ==
    \/ \E row \in Rows : Feed(row)
    \/ Flush

\* The maximal runs of rows of equal time of a stream: where they start,
\* and the last row of the run that starts at i.
RunStarts(q) == {i \in 1..Len(q) : i = 1 \/ q[i - 1].time # q[i].time}
RunEnd(q, i) ==
    CHOOSE j \in i..Len(q) :
        /\ \A k \in i..j : q[k].time = q[i].time
        /\ j = Len(q) \/ q[j + 1].time # q[i].time

RECURSIVE SumVolume(_, _, _)
SumVolume(q, i, j) == IF i > j THEN 0 ELSE q[i].volume + SumVolume(q, i + 1, j)

\* The one row of the run i..j: first open, last close, greatest high,
\* least low, summed volume.
RunRow(q, i, j) ==
    [time |-> q[i].time,
     open |-> q[i].open,
     high |-> CHOOSE h \in {q[k].high : k \in i..j} :
                 \A k \in i..j : q[k].high <= h,
     low |-> CHOOSE l \in {q[k].low : k \in i..j} :
                 \A k \in i..j : l <= q[k].low,
     close |-> q[j].close,
     volume |-> SumVolume(q, i, j)]

\* One row per maximal run, in the order of the runs.
RunRows(q) ==
    [n \in 1..Cardinality(RunStarts(q)) |->
        LET i == CHOOSE s \in RunStarts(q) :
                     Cardinality({u \in RunStarts(q) : u <= s}) = n
        IN RunRow(q, i, RunEnd(q, i))]

\* C20: over a chronologically sorted stream the merger gives one row per
\* maximal run of rows of equal time (open of the first row, close of the
\* last, greatest high, least low, summed volume): the rows written are
\* those of the finished runs and the buffered row is that of the last
\* run; feed returns a row exactly when the row fed has another time than
\* the one before it; flush returns the last buffered row.
C20_MergerFoldsRuns ==
    LET runs == RunRows(cmIn)
        n == Len(cmIn)
    IN cmpc \in {"feeding", "flushed"} =>
        /\ IF n = 0
             THEN cmLast = NoRow
             ELSE cmLast = runs[Len(runs)]
        /\ cmpc = "feeding" =>
              /\ cmOut = SubSeq(runs, 1, Len(runs) - 1)
              /\ cmFlush = NoRow
        /\ cmpc = "flushed" =>
              /\ cmOut = runs
              /\ cmFlush = cmLast
        /\ cmRet # NoRow <=> (n >= 2 /\ cmIn[n].time # cmIn[n - 1].time)
        /\ cmRet # NoRow => cmRet = runs[Len(runs) - 1]

\* Three rows, the first two of one time with the greater high and the
\* lesser low in different rows, then a row of a later time: all flushed.
C20_Witness ==
    /\ cmpc = "flushed"
    /\ Len(cmIn) = 3
    /\ cmIn[1].time = cmIn[2].time
    /\ cmIn[2].time # cmIn[3].time
    /\ cmIn[1].high < cmIn[2].high
    /\ cmIn[1].low < cmIn[2].low
    /\ cmIn[1].open # cmIn[2].open
    /\ cmIn[1].close # cmIn[2].close
    /\ Len(cmOut) = 2
    /\ cmRet = cmOut[1]
    /\ cmFlush = cmIn[3]

(***************************************************************************)
(* Part VII.  core/csv_dumper.py CSVDumper.append and CSVDumper.dump: the  *)
(*            rows of the day's part files and of the final CSV.           *)
(***************************************************************************)

\* config/settings.py: TimeFrame.TICK
TICK == 0

\* Instants are counted in units of 1/SubSec second; a day is DayLen
\* seconds long and append gets at most MaxTicks ticks of it.
SubSec == 2
DayLen == 5
MaxTicks == 2
SpillDays == {1, 2}
PeriodChoices == {TICK, 2}
PriceTypes == {"BID", "ASK", "MID"}
VolumeTypes == {"TOTAL", "BID", "ASK", "TICKS"}

\* The options tried: one of price_type and volume_type away from its
\* default.  Tick rows do not depend on either.
OptionPairs ==
    {<<p, "TOTAL">> : p \in PriceTypes} \cup {<<"BID", v>> : v \in VolumeTypes}

\* 00:00:00 of day d.
Midnight(d) == (d - 1) * DayLen * SubSec

\* The ticks of a day that are tried: the instants at these offsets from
\* midnight, with these prices (ask_raw / point, held as a float: ten
\* float units are one unit of the fifth decimal) and volumes
\* (processor.py:70-78).
TickOffsets == {0, 3, 8}
TickKinds == {[ask |-> 30, bid |-> 10, av |-> 1, bv |-> 2],
              [ask |-> 40, bid |-> 30, av |-> 2, bv |-> 0]}
DayTicks(d) ==
    {[ts |-> Midnight(d) + o, ask |-> k.ask, bid |-> k.bid, av |-> k.av, bv |-> k.bv] :
        o \in TickOffsets, k \in TickKinds}

\* What decompress can return for day d: its ticks sorted by time
\* (processor.py:110-112), none when the day has no data.
TickLists(d) ==
    {q \in UNION {[1..n -> DayTicks(d)] : n \in 0..MaxTicks} :
        \A i \in 1..(Len(q) - 1) : q[i].ts <= q[i + 1].ts}

\* calendar.timegm(dt.timetuple()): the whole seconds of an instant.
TimeGm(dt) == dt \div SubSec
\* stringify_utc: the text DD.MM.YYYY HH:MM:SS of a number of seconds, held
\* as the instant the text denotes.
StringifyUtc(sec) == sec * SubSec
\* format_datetime: dt.strftime('%d.%m.%Y %H:%M:%S'), held as the instant
\* the text denotes.
FormatDatetime(dt) == (dt \div SubSec) * SubSec
\* round(x, 5) of a float.
Round5(x) == FormatPrice(x) * 10
\* What csv writes for an integer, in the units of a row's volume field.
WriteInt(v) == v * 100

\* csv_dumper.py:74-80 _get_price
GetPrice(t) ==
    IF aPrice = "ASK" THEN t.ask
    ELSE IF aPrice = "MID" THEN (t.ask + t.bid) \div 2
    ELSE t.bid

\* csv_dumper.py:82-90 _get_volume
GetVolumeCountsTicks(t) == 1
GetVolumeTotal(t) == t.av + t.bv
GetVolume(t) ==
    IF aVolume = "BID" THEN t.bv
    ELSE IF aVolume = "ASK" THEN t.av
    ELSE IF aVolume = "TICKS" THEN 1
    ELSE GetVolumeTotal(t)

RECURSIVE SeqSum(_)
SeqSum(q) == IF q = <<>> THEN 0 ELSE q[1] + SeqSum(Tail(q))
SeqMaxFirst(q) == q[1]
SeqMax(q) == CHOOSE x \in Range(q) : \A y \in Range(q) : y <= x
SeqMin(q) == CHOOSE x \in Range(q) : \A y \in Range(q) : x <= y

\* candle.py:12-33 Candle.__init__
Candle(sorted_values) ==
    IF sorted_values # <<>>
      THEN [open_price |-> Round5(sorted_values[1]),
            close_price |-> Round5(sorted_values[Len(sorted_values)]),
            high |-> Round5(SeqMax(sorted_values)),
            low |-> Round5(SeqMin(sorted_values))]
      ELSE [open_price |-> 0, close_price |-> 0, high |-> 0, low |-> 0]

\* csv_dumper.py:137-145, 155-163: the row of one candle.
CandleRow(key, prices, vol) ==
    LET candle == Candle(prices)
    IN [time |-> StringifyUtc(key),
        open |-> FormatPrice(candle.open_price),
        high |-> FormatPrice(candle.high),
        low |-> FormatPrice(candle.low),
        close |-> FormatPrice(candle.close_price),
        volume |-> WriteInt(vol)]

\* csv_dumper.py:130-145: the n rows emitted when the key changes: the
\* candle of previous_key, then empty candles.
FillRowsCandleOnly(previous_key, n, prices, volumes) ==
    <<CandleRow(previous_key, prices, SeqSum(volumes))>>
FillRows(previous_key, n, prices, volumes) ==
    [i \in 1..n |->
        CandleRow(previous_key + (i - 1) * aPeriod,
                  IF i = 1 THEN prices ELSE <<>>,
                  IF i = 1 THEN SeqSum(volumes) ELSE 0)]

\* csv_dumper.py:121-163: the loop over the ticks from tick i on, and the
\* last candle after it.  previous_key is <<>> for None.
RECURSIVE AppendLoop(_, _, _, _, _, _)
AppendLoop(ticks, i, previous_key, prices, volumes, rows) ==
    IF i > Len(ticks)
      THEN IF previous_key # <<>> /\ prices # <<>>
             THEN Append(rows, CandleRow(previous_key[1], prices, SeqSum(volumes)))
             ELSE rows
      ELSE LET ts == TimeGm(ticks[i].ts)
               key == ts - (ts % aPeriod)
               emit == previous_key # <<key>> /\ previous_key # <<>>
               n == (key - previous_key[1]) \div aPeriod
           IN AppendLoop(ticks, i + 1, <<key>>,
                  Append(IF emit THEN <<>> ELSE prices, GetPrice(ticks[i])),
                  Append(IF emit THEN <<>> ELSE volumes, GetVolume(ticks[i])),
                  IF emit THEN rows \o FillRows(previous_key[1], n, prices, volumes)
                          ELSE rows)

\* csv_dumper.py:111-119: the row of one tick.
TickRow(t) ==
    [time |-> FormatDatetime(t.ts),
     ask |-> FormatPrice(t.ask),
     bid |-> FormatPrice(t.bid),
     ask_volume |-> WriteInt(t.av),
     bid_volume |-> WriteInt(t.bv)]

\* csv_dumper.py:102-166 append: the rows written to the day's part file
\* (no file when there are no ticks).
AppendRows(ticks) ==
    IF ticks = <<>> THEN <<>>
    ELSE IF aPeriod = TICK
      THEN [i \in 1..Len(ticks) |-> TickRow(ticks[i])]
      ELSE AppendLoop(ticks, 1, <<>>, <<>>, <<>>, <<>>)

\* csv_dumper.py:197: sorted(glob("*.part")); the names are the days'
\* ordinals, which have one width for the dates the archive holds.
PartsAsSpilled(order) == SelectSeq(order, LAMBDA d : aParts[d] # <<>>)
PartsSorted(order) == SortedSeq({d \in Range(order) : aParts[d] # <<>>})

RECURSIVE Concat(_)
Concat(days) == IF days = <<>> THEN <<>> ELSE aParts[Head(days)] \o Concat(Tail(days))

\* csv_dumper.py:208-224: the rows from row i on go through the merger,
\* whose last_row is `last`; then the flush.
RECURSIVE MergeRows(_, _, _, _)
MergeRows(rows, i, last, out) ==
    IF i > Len(rows)
      THEN IF last # NoRow THEN Append(out, last) ELSE out
      ELSE IF last = NoRow
        THEN MergeRows(rows, i + 1, rows[i], out)
        ELSE IF rows[i].time = last.time
          THEN MergeRows(rows, i + 1, Merge(last, rows[i]), out)
          ELSE MergeRows(rows, i + 1, rows[i], Append(out, last))

\* csv_dumper.py:187-233 dump
DumpRows ==
    LET rows == Concat(PartsSorted(aOrder))
    IN IF aPeriod = TICK THEN rows ELSE MergeRows(rows, 1, NoRow, <<>>)

AssemblyInit ==
    /\ aPeriod \in PeriodChoices
    /\ \E pair \in OptionPairs : aPrice = pair[1] /\ aVolume = pair[2]
    /\ aPeriod = TICK => (aPrice = "BID" /\ aVolume = "TOTAL")
    /\ aTicks = [d \in SpillDays |-> <<>>]
    /\ aParts = [d \in SpillDays |-> <<>>]
    /\ aOrder = <<>>
    /\ aOut = <<>>
    /\ apc = "spill"

\* service.py:204-212: a worker's do_work hands the day's ticks to append.
\* The workers finish in any order.
AppendDay(d, ticks) ==
    /\ apc = "spill"
    /\ d \notin Range(aOrder)
    /\ aTicks' = [aTicks EXCEPT ![d] = ticks]
    /\ aParts' = [aParts EXCEPT ![d] = AppendRows(ticks)]
    /\ aOrder' = Append(aOrder, d)
    /\ UNCHANGED <<aPeriod, aPrice, aVolume, aOut, apc>>
    /\ UNCHANGED AssemblyFrame

\* service.py:254: csv_dumper.dump() after the pool has drained.
DumpAll ==
    /\ apc = "spill"
    /\ aOut' = DumpRows
    /\ apc' = "dumped"
    /\ UNCHANGED <<aPeriod, aPrice, aVolume, aTicks, aParts, aOrder>>
    /\ UNCHANGED AssemblyFrame

AssemblyNext ==
    \/ \E d \in SpillDays : \E ticks \in TickLists(d) : AppendDay(d, ticks)
    \/ DumpAll

\* C21: in the final file the rows are non-decreasing in time, and in
\* candle output no two rows share a time, whatever the order in which the
\* days were spilled.
C21_OutputOrdered ==
    apc = "dumped" =>
        \A i \in 1..(Len(aOut) - 1) :
            /\ aOut[i].time <= aOut[i + 1].time
            /\ aPeriod # TICK => aOut[i].time < aOut[i + 1].time

\* Candle output of two days with rows each, the later day spilled first.
C21_Witness ==
    /\ apc = "dumped"
    /\ aPeriod # TICK
    /\ aOrder = <<2, 1>>
    /\ Len(aParts[1]) >= 2
    /\ Len(aParts[2]) >= 2
    /\ Len(aOut) >= 3

\* The bucket of a tick at the period of the request, and the selected
\* volume of the ticks of a list that fall into bucket b.
Bucket(t) == LET ts_s == t.ts \div SubSec IN ts_s - (ts_s % aPeriod)
Selected(t) ==
    CASE aVolume = "TOTAL" -> t.av + t.bv
      [] aVolume = "BID" -> t.bv
      [] aVolume = "ASK" -> t.av
      [] aVolume = "TICKS" -> 1
BucketVolume(q, b) ==
    LET inb == SelectSeq(q, LAMBDA t : Bucket(t) = b)
    IN SeqSum([i \in 1..Len(inb) |-> Selected(inb[i])])
AllTicks == aTicks[1] \o aTicks[2]

\* C22: when ticks of day D and of day D+1 fall into one bucket (it spans
\* midnight), the final output has exactly one candle row for the bucket,
\* at the bucket's start, whose volume is the sum of the selected volumes
\* of the ticks of both days in it.
C22_MidnightBucketMerged ==
    (/\ apc = "dumped"
     /\ aPeriod # TICK
     /\ aTicks[1] # <<>>
     /\ aTicks[2] # <<>>
     /\ Bucket(aTicks[1][Len(aTicks[1])]) = Bucket(aTicks[2][1])) =>
        LET b == Bucket(aTicks[2][1])
            at == {i \in 1..Len(aOut) : aOut[i].time = StringifyUtc(b)}
        IN /\ Cardinality(at) = 1
           /\ \A i \in at : aOut[i].volume = WriteInt(BucketVolume(AllTicks, b))

\* Two ticks in the last second of day 1 and two in the first second of
\* day 2, all in one bucket: one row, whose volume is that of the four.
C22_Witness ==
    /\ apc = "dumped"
    /\ aPeriod # TICK
    /\ aVolume = "TOTAL"
    /\ Len(aTicks[1]) = 2
    /\ Len(aTicks[2]) = 2
    /\ \A i \in 1..2 : Bucket(aTicks[1][i]) = Bucket(aTicks[2][i])
    /\ aTicks[1][1].av # aTicks[1][2].av
    /\ Len(aOut) = 1
    /\ aOut[1].volume = WriteInt(GetVolumeTotal(aTicks[1][1]) + GetVolumeTotal(aTicks[1][2])
                                 + GetVolumeTotal(aTicks[2][1]) + GetVolumeTotal(aTicks[2][2]))

\* low <= open <= high, low <= close <= high and volume >= 0 for a row.
WellFormed(r) ==
    /\ r.low <= r.open /\ r.open <= r.high
    /\ r.low <= r.close /\ r.close <= r.high
    /\ r.volume >= 0

\* Is row r of the part of day d an empty candle (no tick in its bucket)?
IsFill(d, r) == \A i \in 1..Len(aTicks[d]) : StringifyUtc(Bucket(aTicks[d][i])) # r.time

\* C23: every candle row, whether aggregated within a day, produced by the
\* empty-candle fill or by the cross-day merge, has low <= open <= high,
\* low <= close <= high and volume >= 0.
C23_RowsWellFormed ==
    aPeriod # TICK =>
        /\ \A d \in SpillDays : \A i \in 1..Len(aParts[d]) : WellFormed(aParts[d][i])
        /\ \A i \in 1..Len(aOut) : WellFormed(aOut[i])

\* An output with an empty candle, a row merged across midnight and a row
\* whose high is above its low.
C23_Witness ==
    /\ apc = "dumped"
    /\ aPeriod # TICK
    /\ \E i \in 1..Len(aParts[1]) : IsFill(1, aParts[1][i])
    /\ Len(aOut) < Len(aParts[1]) + Len(aParts[2])
    /\ \E i \in 1..Len(aOut) : aOut[i].low < aOut[i].high /\ aOut[i].open # aOut[i].close

\* C24: the candles of a day's ticks at period P: every tick has exactly
\* one candle, the one that starts at ts_s - (ts_s mod P); each candle's
\* volume is the sum of the selected volume of the ticks in its bucket; so
\* the volumes of the day's candles sum to the selected volume of its ticks.
C24_TicksToCandles ==
    aPeriod # TICK =>
        \A d \in SpillDays :
            LET q == aTicks[d]
                rows == aParts[d]
            IN /\ \A i \in 1..Len(q) :
                    Cardinality({j \in 1..Len(rows) :
                        rows[j].time = StringifyUtc(Bucket(q[i]))}) = 1
               /\ \A j \in 1..Len(rows) :
                    rows[j].volume = WriteInt(BucketVolume(q, rows[j].time \div SubSec))
               /\ SeqSum([j \in 1..Len(rows) |-> rows[j].volume])
                    = WriteInt(SeqSum([i \in 1..Len(q) |-> Selected(q[i])]))

\* ASK volume selected, two ticks of day 1 with different ask volumes in
\* one bucket: one candle, with the sum of the two.
C24_Witness ==
    /\ aPeriod # TICK
    /\ aVolume = "ASK"
    /\ Len(aTicks[1]) = 2
    /\ aTicks[1][1].av # aTicks[1][2].av
    /\ aTicks[1][1].ts # aTicks[1][2].ts
    /\ Len(aParts[1]) = 1
    /\ aParts[1][1].volume = WriteInt(aTicks[1][1].av + aTicks[1][2].av)

\* C25 (as claimed): in the final output of tick-derived candles at period
\* P any two adjacent rows are exactly P apart, rows of different days
\* included.
C25_AdjacentRowsOnePeriodApart ==
    (apc = "dumped" /\ aPeriod # TICK) =>
        \A i \in 1..(Len(aOut) - 1) :
            aOut[i + 1].time - aOut[i].time = StringifyUtc(aPeriod)

\* C26 (as claimed): in tick output each row's time is the tick's instant,
\* its part below the second kept.
C26_TickTimeKeepsMilliseconds ==
    aPeriod = TICK =>
        \A d \in SpillDays : \A i \in 1..Len(aParts[d]) :
            aParts[d][i].time = aTicks[d][i].ts

\* C35: within one day's aggregation, ticks in consecutive buckets k1 < k2 =
\* k1 + n*P give the candle of k1, then exactly n-1 empty candles (zero
\* open, high, low, close and volume) at k1+P, ..., k2-P, in that order, then
\* the candle of k2; the day's rows start at the bucket of its first tick
\* and end at the bucket of its last tick.
C35_EmptyCandlesBetweenBuckets ==
    aPeriod # TICK =>
        \A d \in SpillDays :
            LET q == aTicks[d]
                rows == aParts[d]
            IN IF q = <<>> THEN rows = <<>>
               ELSE LET first == Bucket(q[1])
                        last == Bucket(q[Len(q)])
                    IN /\ Len(rows) = ((last - first) \div aPeriod) + 1
                       /\ \A j \in 1..Len(rows) :
                            /\ rows[j].time = StringifyUtc(first + (j - 1) * aPeriod)
                            /\ IF IsFill(d, rows[j])
                                 THEN /\ rows[j].open = 0 /\ rows[j].high = 0
                                      /\ rows[j].low = 0 /\ rows[j].close = 0
                                      /\ rows[j].volume = 0
                                 ELSE /\ rows[j].low > 0
                                      /\ rows[j].volume =
                                           WriteInt(BucketVolume(q, first + (j - 1) * aPeriod))

\* A day with ticks two periods apart: candle, empty candle, candle.
C35_Witness ==
    /\ aPeriod # TICK
    /\ \E d \in SpillDays :
          /\ Len(aTicks[d]) = 2
          /\ Bucket(aTicks[d][2]) = Bucket(aTicks[d][1]) + 2 * aPeriod
          /\ Len(aParts[d]) = 3
          /\ aParts[d][1].high > 0
          /\ aParts[d][2].high = 0
          /\ aParts[d][2].volume = 0
          /\ aParts[d][3].high > 0

(***************************************************************************)
(* Part VIII.  core/processor.py decompress_lzma.                          *)
(***************************************************************************)

\* A blob is a sequence of at most MaxSegs segments.  A segment is a whole
\* LZMA stream (header, body, end-of-stream), a stream cut off before its
\* end (the blob ends there), or bytes that are no LZMA stream.
MaxSegs == 3
StreamBodies == {<<"a1", "a2">>, <<"b1", "b2">>}
Segments ==
    {[kind |-> "stream", body |-> b] : b \in StreamBodies}
        \cup {[kind |-> "cut", body |-> <<"a1", "a2">>],
              [kind |-> "garbage", body |-> <<>>]}
Blobs ==
    {q \in UNION {[1..n -> Segments] : n \in 0..MaxSegs} :
        \A i \in 1..(Len(q) - 1) : q[i].kind # "cut"}

\* LZMADecompressor.decompress(data) on a fresh decoder: what it returns,
\* its eof and unused_data afterwards, or that it raises LZMAError.  A
\* stream cut off before its end gives the bytes decoded up to the cut and
\* neither raises nor sets eof.
Decompress(data) ==
    LET seg == Head(data)
    IN CASE seg.kind = "stream" ->
              [raises |-> FALSE, res |-> seg.body, eof |-> TRUE, unused_data |-> Tail(data)]
         [] seg.kind = "cut" ->
              [raises |-> FALSE, res |-> SubSeq(seg.body, 1, Len(seg.body) - 1),
               eof |-> FALSE, unused_data |-> <<>>]
         [] OTHER ->
              [raises |-> TRUE, res |-> <<>>, eof |-> FALSE, unused_data |-> <<>>]

\* b"".join(results)
RECURSIVE Join(_)
Join(results) == IF results = <<>> THEN <<>> ELSE Head(results) \o Join(Tail(results))

LzmaInit ==
    /\ zBlob \in Blobs
    /\ zData = zBlob
    /\ zResults = <<>>
    /\ zRet = <<>>
    /\ zpc = "call"

\* processor.py:19-22
LzmaEnter ==
    /\ zpc = "call"
    /\ IF zData = <<>>
         THEN zpc' = "returned" /\ zRet' = <<>>
         ELSE zpc' = "loop" /\ zRet' = zRet
    /\ UNCHANGED <<zBlob, zData, zResults>>
    /\ UNCHANGED LzmaFrame

\* processor.py:23-37: one pass of the while loop.
LzmaIterate ==
    /\ zpc = "loop"
    /\ LET d == Decompress(zData)
       IN IF d.raises
            THEN /\ zpc' = IF zResults # <<>> THEN "join" ELSE "raised"
                 /\ UNCHANGED <<zData, zResults>>
            ELSE /\ zResults' = Append(zResults, d.res)
                 /\ zData' = d.unused_data
                 /\ zpc' = IF d.unused_data = <<>> THEN "join"
                           ELSE IF ~d.eof THEN "raised"
                           ELSE "loop"
    /\ UNCHANGED <<zBlob, zRet>>
    /\ UNCHANGED LzmaFrame

\* processor.py:38
LzmaReturn ==
    /\ zpc = "join"
    /\ zRet' = Join(zResults)
    /\ zpc' = "returned"
    /\ UNCHANGED <<zBlob, zData, zResults>>
    /\ UNCHANGED LzmaFrame

LzmaNext == LzmaEnter \/ LzmaIterate \/ LzmaReturn

\* The bodies of the whole streams at the front of a blob, joined.
RECURSIVE WholeFront(_)
WholeFront(q) ==
    IF q = <<>> \/ Head(q).kind # "stream" THEN <<>>
    ELSE Head(q).body \o WholeFront(Tail(q))

IsPrefix(p, q) == Len(p) <= Len(q) /\ SubSeq(q, 1, Len(p)) = p

\* C27 (as claimed): on a blob of one or more whole streams the call
\* returns all the decoded streams joined; it raises when the first stream
\* is malformed, a first stream cut off before its end-of-stream marker
\* included; when a later segment fails after a stream was decoded it
\* returns what was decoded before, and does not raise.
C27_DecompressLzma ==
    (zpc \in {"returned", "raised"} /\ zBlob # <<>>) =>
        /\ (\A i \in 1..Len(zBlob) : zBlob[i].kind = "stream") =>
              (zpc = "returned" /\ zRet = WholeFront(zBlob))
        /\ zBlob[1].kind \in {"garbage", "cut"} => zpc = "raised"
        /\ (zBlob[1].kind = "stream" /\ \E i \in 2..Len(zBlob) : zBlob[i].kind # "stream") =>
              (zpc = "returned" /\ IsPrefix(WholeFront(zBlob), zRet))

(***************************************************************************)
(* Part IX.  core/fetch.py fetch_day / fetch_day_async: the day's          *)
(*           download_hour coroutines under the semaphore.                 *)
(***************************************************************************)

\* max_concurrent (HOURLY_CONCURRENCY by default), kept below the number of
\* hours so that hours have to wait.
MaxConcurrent == 2
\* The clock counts in units of config/settings.py REQUEST_DELAY.
REQUEST_DELAY == 1
\* The clock is followed for MaxPass units after the creation loop.
MaxPass == 2
MaxClock == NumHours * REQUEST_DELAY + MaxPass

\* asyncio.Semaphore.locked()
LockedNever(value) == FALSE
Locked(value) == value <= 0

\* fetch.py:51, 54, 85: the pair a call that ended as e returns.
HourResultOfFirstHour(h, e) == <<0, BlobOf(e)>>
HourResult(h, e) == <<h, BlobOf(e)>>

\* sorted(results, key=lambda x: x[0])
RECURSIVE SortedByHour(_)
SortedByHour(results) ==
    IF results = <<>> THEN <<>>
    ELSE LET i == CHOOSE j \in 1..Len(results) :
                      /\ \A k \in 1..Len(results) : results[j][1] <= results[k][1]
                      /\ \A k \in 1..(j - 1) : results[k][1] # results[j][1]
         IN <<results[i]>> \o SortedByHour(SubSeq(results, 1, i - 1)
                                             \o SubSeq(results, i + 1, Len(results)))

Ended(h) == hState[h] \in HourEnds
HoursInFlight == {h \in DayHours : hState[h] = "inflight"}

\* fetch.py:144 and 106-108: a fresh semaphore, no coroutine yet.
FetchDayInit ==
    /\ hpc = "create"
    /\ hIx = 0
    /\ hClock = 0
    /\ hState = [h \in DayHours |-> "none"]
    /\ hValue = MaxConcurrent
    /\ hWaiters = <<>>
    /\ hReqStart = [h \in DayHours |-> <<>>]
    /\ hWaited = {}
    /\ hOrder = FALSE
    /\ hRet = <<>>

\* fetch.py:108-120: one pass of the loop: the coroutine object of hour h
\* is made and appended (it does not run), then the loop sleeps
\* REQUEST_DELAY.
CreateHour(h) ==
    /\ hpc = "create"
    /\ h = hIx
    /\ hState' = [hState EXCEPT ![h] = "created"]
    /\ hClock' = hClock + REQUEST_DELAY
    /\ IF h + 1 \in DayHours
         THEN hIx' = h + 1 /\ hpc' = hpc
         ELSE hIx' = 0 /\ hpc' = "start"
    /\ UNCHANGED <<hValue, hWaiters, hReqStart, hWaited, hOrder, hRet>>
    /\ UNCHANGED FetchDayFrame

\* fetch.py:122 and 33-44: asyncio.gather wraps the coroutines in tasks;
\* the loop runs each, in order, up to its first suspension: the request,
\* when `async with semaphore` got a slot at once, or the wait for a slot.
TaskStart(h) ==
    /\ hpc = "start"
    /\ h = hIx
    /\ IF ~Locked(hValue)
         THEN /\ hValue' = hValue - 1
              /\ hState' = [hState EXCEPT ![h] = "inflight"]
              /\ hReqStart' = [hReqStart EXCEPT ![h] = <<hClock>>]
              /\ UNCHANGED <<hWaiters, hWaited>>
         ELSE /\ hWaiters' = Append(hWaiters, h)
              /\ hState' = [hState EXCEPT ![h] = "waiting"]
              /\ hWaited' = hWaited \cup {h}
              /\ UNCHANGED <<hValue, hReqStart>>
    /\ IF h + 1 \in DayHours
         THEN hIx' = h + 1 /\ hpc' = hpc
         ELSE hIx' = 0 /\ hpc' = "gather"
    /\ UNCHANGED <<hClock, hOrder, hRet>>
    /\ UNCHANGED FetchDayFrame

\* Is a callback ready to run (so that the loop does not wait)?
Ready ==
    \/ hWaiters # <<>> /\ ~Locked(hValue)
    \/ \E h \in DayHours : Ended(h) /\ HourRaises(hState[h])
    \/ \A h \in DayHours : Ended(h)

\* The loop waits for the network or a timer: time passes.
Pass ==
    /\ hpc = "gather"
    /\ ~Ready
    /\ hClock < MaxClock
    /\ hClock' = hClock + 1
    /\ UNCHANGED <<hpc, hIx, hState, hValue, hWaiters, hReqStart, hWaited, hOrder, hRet>>
    /\ UNCHANGED FetchDayFrame

\* fetch.py:33-85: the download_hour call of hour h ends as e, some time
\* after its first request, and leaves `async with semaphore`, by return
\* or by BackoffError: the slot is released.
HourEnd(h, e) ==
    /\ hpc = "gather"
    /\ hState[h] = "inflight"
    /\ hClock > hReqStart[h][1] \/ hClock = MaxClock
    /\ hState' = [hState EXCEPT ![h] = e]
    /\ hValue' = hValue + 1
    /\ hOrder' = (hOrder \/ \E g \in DayHours : g < h /\ ~Ended(g))
    /\ UNCHANGED <<hpc, hIx, hClock, hWaiters, hReqStart, hWaited, hRet>>
    /\ UNCHANGED FetchDayFrame

\* asyncio.Semaphore: the oldest waiter is woken and takes the slot; its
\* first request starts.
Acquire(h) ==
    /\ hpc = "gather"
    /\ hWaiters # <<>>
    /\ h = Head(hWaiters)
    /\ ~Locked(hValue)
    /\ hValue' = hValue - 1
    /\ hWaiters' = Tail(hWaiters)
    /\ hState' = [hState EXCEPT ![h] = "inflight"]
    /\ hReqStart' = [hReqStart EXCEPT ![h] = <<hClock>>]
    /\ UNCHANGED <<hpc, hIx, hClock, hWaited, hOrder, hRet>>
    /\ UNCHANGED FetchDayFrame

\* fetch.py:122-124: every call returned; gather gives the results in the
\* order of the tasks, fetch_day_async returns them sorted by hour.
GatherReturn ==
    /\ hpc = "gather"
    /\ \A h \in DayHours : Ended(h) /\ ~HourRaises(hState[h])
    /\ hRet' = SortedByHour([i \in 1..NumHours |-> HourResult(i - 1, hState[i - 1])])
    /\ hpc' = "returned"
    /\ UNCHANGED <<hIx, hClock, hState, hValue, hWaiters, hReqStart, hWaited, hOrder>>
    /\ UNCHANGED FetchDayFrame

\* fetch.py:122, 152: a call raised BackoffError; gather passes it on at
\* once, fetch_day raises and run_until_complete stops the loop.  The
\* other tasks are not cancelled and are not run any more.
GatherRaise ==
    /\ hpc = "gather"
    /\ \E h \in DayHours : Ended(h) /\ HourRaises(hState[h])
    /\ hpc' = "raised"
    /\ UNCHANGED <<hIx, hClock, hState, hValue, hWaiters, hReqStart, hWaited, hOrder, hRet>>
    /\ UNCHANGED FetchDayFrame

FetchDayNext ==
    \/ \E h \in DayHours : CreateHour(h)
    \/ \E h \in DayHours : TaskStart(h)
    \/ Pass
    \/ \E h \in DayHours, e \in HourEnds : HourEnd(h, e)
    \/ \E h \in DayHours : Acquire(h)
    \/ GatherReturn
    \/ GatherRaise

\* For the slots it only matters whether a call returns or raises.
SlotEnds == {"data", "throttled"}
FetchDaySlotsNext ==
    \/ \E h \in DayHours : CreateHour(h)
    \/ \E h \in DayHours : TaskStart(h)
    \/ Pass
    \/ \E h \in DayHours, e \in SlotEnds : HourEnd(h, e)
    \/ \E h \in DayHours : Acquire(h)
    \/ GatherReturn
    \/ GatherRaise

\* C28: fetch_day returns exactly one (hour, bytes) pair for each hour of
\* the day, in ascending hour order, whatever the order in which the hour
\* fetches finish; an hour that was missing or failed has empty bytes.
C28_FetchDayResult ==
    hpc = "returned" =>
        /\ Len(hRet) = NumHours
        /\ \A i \in 1..NumHours :
              /\ hRet[i][1] = i - 1
              /\ hRet[i][2] = BlobOf(hState[i - 1])
              /\ hState[i - 1] \in {"missing", "skipped"} => hRet[i][2] = EmptyBytes

\* The hours finished in another order than they were started, one hour
\* was missing and one gave up after its retries.
C28_Witness ==
    /\ hpc = "returned"
    /\ hOrder
    /\ \E h \in DayHours : hState[h] = "missing"
    /\ \E h \in DayHours : hState[h] = "skipped"
    /\ \E h \in DayHours : hState[h] = "data"

\* The loop runs every callback that is ready, time passes while it
\* waits, and every download_hour call ends (its attempts are bounded and
\* every request and sleep is timed).
FetchDayFair ==
    /\ WF_vars(\E h \in DayHours : CreateHour(h))
    /\ WF_vars(\E h \in DayHours : TaskStart(h))
    /\ WF_vars(Pass)
    /\ \A h \in DayHours : WF_vars(\E e \in SlotEnds : HourEnd(h, e))
    /\ WF_vars(\E h \in DayHours : Acquire(h))
    /\ WF_vars(GatherReturn)
    /\ WF_vars(GatherRaise)

C30_RequestsStaggered ==
    \A h \in DayHours :
        (/\ h + 1 \in DayHours
         /\ hReqStart[h] # <<>>
         /\ hReqStart[h + 1] # <<>>
         /\ hReqStart[h + 1][1] < MaxClock) =>
            hReqStart[h + 1][1] >= hReqStart[h][1] + REQUEST_DELAY

(***************************************************************************)
(* Part X.  core/fetch.py download_hour under core/service.py cancel()      *)
(***************************************************************************)

\* The call starts as in Part I, the flag not yet set (service.py:63).
FetchCancelInit ==
    /\ FetchInit
    /\ kAtCancel = <<>>

\* service.py:74-76 cancel(), called from another thread while a worker
\* thread is inside download_hour: the event is set.  download_hour gets
\* (session, url, hour, semaphore) and never reads the event (fetch.py:28-85),
\* so nothing else changes.
CancelDuringFetch ==
    /\ ~cancel
    /\ fState = "running"
    /\ cancel' = TRUE
    /\ kAtCancel' = <<fRequests>>
    /\ UNCHANGED <<symbols, numDays, resume, startDate, circuitOpen, circuitResetTime, now,
                   jobState, priorState, output, tempDir, symIx, mpc, pending, subIx,
                   wpc, wres, collected, completedList, completedCount, hist>>
    /\ UNCHANGED CancelOtherFrame

FetchCancelNext ==
    \/ \E r \in Outcomes, body \in Bodies : Attempt(r, body)
    \/ Exhausted
    \/ CancelDuringFetch

(***************************************************************************)
(* Claims about cancellation inside the retry loop.                        *)
(***************************************************************************)

\* C31 (as claimed): once the cancellation flag is set while a fetch is in
\* its retry loop, the loop exits early.  The request in flight when the
\* flag is set is not aborted, and one more request is allowed for a check
\* that ran just before the flag was set; after that no request is issued.
C31_RetryLoopExitsOnCancel ==
    cancel => fRequests <= kAtCancel[1] + 1

(***************************************************************************)
(* Part XI.  server.py                                                     *)
(***************************************************************************)

\* The symbols of the job's request and the cancel requests a client sends.
JobSymbols == 2
MaxCancels == 2

\* The statuses the spec calls terminal (server.py:355).
TerminalStatuses == {"completed", "failed", "cancelled"}

\* The server before POST /api/download (server.py:129).
JobInit ==
    /\ jStatus = "none"
    /\ jEvent = FALSE
    /\ jpc = "idle"
    /\ jSymIx = 0
    /\ jFiles = 0
    /\ jhpc = "idle"
    /\ jCancels = 0

\* start_download (server.py:340-344): create_job (54-68) puts the job in
\* "pending" with a fresh event, then the job thread is started.
CreateJob ==
    /\ jpc = "idle"
    /\ jStatus' = "pending"
    /\ jEvent' = FALSE
    /\ jpc' = "created"
    /\ UNCHANGED <<jSymIx, jFiles, jhpc, jCancels>>
    /\ UNCHANGED JobFrame

\* run_download_job up to service.run() (server.py:222-260): building the
\* configuration and the service may raise (a bad date, an invalid symbol);
\* otherwise the status is set to "running".
JobBegin(ok) ==
    /\ jpc = "created"
    /\ IF ok
         THEN /\ jStatus' = "running"
              /\ jpc' = "run"
              /\ jSymIx' = 1
         ELSE /\ jpc' = "raised"
              /\ UNCHANGED <<jStatus, jSymIx>>
    /\ UNCHANGED <<jEvent, jFiles, jhpc, jCancels>>
    /\ UNCHANGED JobFrame

\* service.run() (service.py:101-121): one pass of the loop over the
\* symbols.  The loop stops on the flag; a symbol ends with on_finish
\* (server.py:160-161 records its file) or without a file (cancelled in
\* between, nothing pending, or an error that run() catches).
JobSymbol(wrote) ==
    /\ jpc = "run"
    /\ jSymIx <= JobSymbols
    /\ IF jEvent
         THEN /\ jpc' = "ran"
              /\ UNCHANGED <<jSymIx, jFiles>>
         ELSE /\ jSymIx' = jSymIx + 1
              /\ jFiles' = IF wrote THEN jFiles + 1 ELSE jFiles
              /\ jpc' = jpc
    /\ UNCHANGED <<jStatus, jEvent, jhpc, jCancels>>
    /\ UNCHANGED JobFrame

\* service.run() returns after the last symbol, or raises before the loop
\* (service.py:102, _should_use_native's ValueError).
JobRunEnds ==
    /\ jpc = "run"
    /\ \/ jSymIx > JobSymbols /\ jpc' = "ran"
       \/ jSymIx = 1 /\ jpc' = "raised"
    /\ UNCHANGED <<jStatus, jEvent, jSymIx, jFiles, jhpc, jCancels>>
    /\ UNCHANGED JobFrame

\* run_download_job after service.run() (server.py:264-287).
JobEnd ==
    /\ jpc \in {"ran", "raised"}
    /\ jStatus' = IF jpc = "raised" THEN "failed"
                  ELSE IF jEvent THEN "cancelled" ELSE "completed"
    /\ jpc' = "done"
    /\ UNCHANGED <<jEvent, jSymIx, jFiles, jhpc, jCancels>>
    /\ UNCHANGED JobFrame

\* POST /api/jobs/{id}/cancel (server.py:349-356): the route reads the
\* status without the lock and answers at once for a finished job.
CancelCheck ==
    /\ jhpc = "idle"
    /\ jStatus # "none"
    /\ jCancels < MaxCancels
    /\ jCancels' = jCancels + 1
    /\ jhpc' = IF jStatus \in TerminalStatuses THEN "idle" ELSE "checked"
    /\ UNCHANGED <<jStatus, jEvent, jpc, jSymIx, jFiles>>
    /\ UNCHANGED JobFrame

\* JobState.cancel_job (server.py:76-77): the event is set.
CancelSet ==
    /\ jhpc = "checked"
    /\ jEvent' = TRUE
    /\ jhpc' = "set"
    /\ UNCHANGED <<jStatus, jpc, jSymIx, jFiles, jCancels>>
    /\ UNCHANGED JobFrame

\* JobState.cancel_job (server.py:78): update_job(status="cancelling").
CancelMark ==
    /\ jhpc = "set"
    /\ jStatus' = "cancelling"
    /\ jhpc' = "idle"
    /\ UNCHANGED <<jEvent, jpc, jSymIx, jFiles, jCancels>>
    /\ UNCHANGED JobFrame

JobNext ==
    \/ CreateJob
    \/ \E ok \in BOOLEAN : JobBegin(ok)
    \/ \E wrote \in BOOLEAN : JobSymbol(wrote)
    \/ JobRunEnds
    \/ JobEnd
    \/ CancelCheck
    \/ CancelSet
    \/ CancelMark

(***************************************************************************)
(* Claims about the job's status.                                          *)
(***************************************************************************)

\* The status changes the state machine of the spec allows, with the
\* server's "cancelling" taken as a stage of pending / running.
JobSteps ==
    {<<"none", "pending">>, <<"pending", "running">>,
     <<"pending", "cancelling">>, <<"running", "cancelling">>,
     <<"cancelling", "running">>, <<"cancelling", "cancelling">>}
        \cup {<<s, t>> : s \in {"pending", "running", "cancelling"}, t \in TerminalStatuses}

\* C32 (as claimed): a job moves pending -> running -> exactly one of
\* completed, cancelled or failed, and once its status is terminal it never
\* changes again, however the cancel request interleaves with the job thread.
C32_JobStatusMachine ==
    [][/\ jStatus' # jStatus => <<jStatus, jStatus'>> \in JobSteps
       /\ jStatus \in TerminalStatuses => jStatus' = jStatus]_vars

(***************************************************************************)
(* Part XII.  core/validator.py                                            *)
(***************************************************************************)

\* The longest file read, in data rows, and the most rows of a file whose
\* time column parses.
MaxFileRows == 12
MaxTimed == 3

\* validator.py:80: the scan stops once more than this many issues are listed.
IssueLimit == 10

\* A CSV field: the text of a number, any other text, or None (the value
\* csv.DictReader gives a column the row is too short for).
Num(n) == [k |-> "num", v |-> n]
OtherText == [k |-> "text", v |-> 0]
Missing == [k |-> "none", v |-> 0]

\* float(field): the exception it raises, "none" when it returns field.v.
FloatRaises(f) ==
    CASE f.k = "num" -> "none"
      [] f.k = "text" -> "ValueError"
      [] f.k = "none" -> "TypeError"

\* The time column: a text in the format of validator.py:11, in the
\* fallback format of validator.py:77, or in neither.
TimeChoices ==
    {[fmt |-> "dmy", t |-> 1], [fmt |-> "dmy", t |-> 2],
     [fmt |-> "iso", t |-> 1], [fmt |-> "other", t |-> 0]}

\* validator.py:71-81: the parsed time as <<t>>, <<>> when both strptime
\* calls raise.
ParseTime(s) == IF s.fmt \in {"dmy", "iso"} THEN <<s.t>> ELSE <<>>

\* The price columns of a candle row: sound, all zero (an empty candle),
\* high below low, a non-numeric open, a row cut short after the low.
CandlePrices ==
    {<<Num(2), Num(3), Num(1), Num(2)>>,
     <<Num(0), Num(0), Num(0), Num(0)>>,
     <<Num(2), Num(1), Num(3), Num(2)>>,
     <<OtherText, Num(3), Num(1), Num(2)>>,
     <<Num(2), Num(3), Num(1), Missing>>}

\* The ask and bid columns of a tick row.
TickPrices ==
    {<<Num(2), Num(1)>>, <<Num(0), Num(1)>>, <<Num(2), OtherText>>, <<Num(2), Missing>>}

FileRows(header) ==
    IF header = "tick"
      THEN [time : TimeChoices, p : TickPrices]
      ELSE [time : TimeChoices, p : CandlePrices]

NoCounts == [ooo |-> 0, dup |-> 0, bad |-> 0, zero |-> 0]
NoTruth == [timed |-> 0, missed |-> FALSE]

\* validator.py:18-26
NoResults == [total_rows |-> 0, valid |-> TRUE, fatal |-> FALSE, counts |-> NoCounts]

\* The first exception float() raises over the columns in reading order
\* (validator.py:103-106 and 120-121).
RECURSIVE FirstRaise(_)
FirstRaise(fs) ==
    IF fs = <<>> THEN "none"
    ELSE IF FloatRaises(Head(fs)) # "none" THEN FloatRaises(Head(fs))
    ELSE FirstRaise(Tail(fs))

MinOf(S) == CHOOSE x \in S : \A y \in S : x <= y

\* validator.py:111 and 126: a non-positive price in the row.
NonPositive(header, p) ==
    IF header = "tick"
      THEN p[1].v <= 0 \/ p[2].v <= 0
      ELSE MinOf({p[1].v, p[2].v, p[3].v, p[4].v}) <= 0

\* validator.py:115 (open, high, low, close = p[1..4]).
BadOhlc(header, p) ==
    /\ header # "tick"
    /\ ~(p[2].v >= p[1].v /\ p[2].v >= p[4].v /\ p[2].v >= p[3].v
         /\ p[3].v <= p[1].v /\ p[3].v <= p[4].v)

\* except Exception (validator.py:176): every exception the body can raise
\* is an Exception.
CaughtValueErrorOnly(e) == e = "ValueError"
Caught(e) == e \in {"ValueError", "TypeError", "OSError"}

ValidateInit ==
    /\ vHeader \in {"candle", "tick", "none"}
    /\ vUnread \in 0..MaxFileRows
    /\ vData = vUnread
    /\ vpc = "open"
    /\ vExc = "none"
    /\ vRowCount = 0
    /\ vPrev = <<>>
    /\ vCounts = NoCounts
    /\ vIssues = 0
    /\ vRet = NoResults
    /\ vTruth = NoTruth

\* validator.py:41-61: open the file, look at its first line and at the
\* field names.  A file without a header row has its first data row read
\* as the field names.
VOpen(exists) ==
    /\ vpc = "open"
    /\ IF ~exists
         THEN /\ vExc' = "OSError"
              /\ vpc' = "except"
              /\ UNCHANGED <<vIssues, vRet>>
         ELSE IF vHeader = "none"
           THEN /\ vIssues' = vIssues + 1
                /\ vRet' = [vRet EXCEPT !.valid = FALSE]
                /\ vpc' = "returned"
                /\ vExc' = vExc
           ELSE /\ vpc' = "rows"
                /\ UNCHANGED <<vExc, vIssues, vRet>>
    /\ UNCHANGED <<vHeader, vUnread, vData, vRowCount, vPrev, vCounts, vTruth>>
    /\ UNCHANGED ValidateFrame

\* validator.py:66-130: one pass of `for row in reader`.
VRow(row) ==
    /\ vpc = "rows"
    /\ vUnread > 0
    /\ vUnread' = vUnread - 1
    /\ vRowCount' = vRowCount + 1
    /\ ParseTime(row.time) # <<>> => vTruth.timed < MaxTimed
    /\ vTruth' =
         [timed |-> vTruth.timed + (IF ParseTime(row.time) # <<>> THEN 1 ELSE 0),
          missed |-> \/ vTruth.missed
                     \/ /\ ParseTime(row.time) = <<>>
                        /\ FirstRaise(row.p) = "none"
                        /\ NonPositive(vHeader, row.p) \/ BadOhlc(vHeader, row.p)]
    /\ IF ParseTime(row.time) = <<>>
         THEN /\ vIssues' = vIssues + 1
              /\ vpc' = IF vIssues + 1 > IssueLimit THEN "after" ELSE "rows"
              /\ UNCHANGED <<vPrev, vCounts, vExc>>
         ELSE /\ vPrev' = ParseTime(row.time)
              /\ LET current_time == ParseTime(row.time)[1]
                     chron == IF vPrev = <<>> THEN vCounts
                              ELSE IF current_time < vPrev[1]
                                THEN [vCounts EXCEPT !.ooo = @ + 1]
                              ELSE IF current_time = vPrev[1]
                                THEN [vCounts EXCEPT !.dup = @ + 1]
                              ELSE vCounts
                     raised == FirstRaise(row.p)
                 IN  CASE raised = "none" ->
                            /\ vCounts' =
                                 [chron EXCEPT
                                    !.zero = IF NonPositive(vHeader, row.p) THEN @ + 1 ELSE @,
                                    !.bad = IF BadOhlc(vHeader, row.p) THEN @ + 1 ELSE @]
                            /\ UNCHANGED <<vIssues, vExc, vpc>>
                       [] raised = "ValueError" ->
                            /\ vCounts' = chron
                            /\ vIssues' = vIssues + 1
                            /\ UNCHANGED <<vExc, vpc>>
                       [] OTHER ->
                            /\ vCounts' = chron
                            /\ vExc' = raised
                            /\ vpc' = "except"
                            /\ UNCHANGED vIssues
    /\ UNCHANGED <<vHeader, vData, vRet>>
    /\ UNCHANGED ValidateFrame

\* The reader is exhausted: the loop ends.
VRowsEnd ==
    /\ vpc = "rows"
    /\ vUnread = 0
    /\ vpc' = "after"
    /\ UNCHANGED <<vHeader, vUnread, vData, vExc, vRowCount, vPrev, vCounts, vIssues, vRet, vTruth>>
    /\ UNCHANGED ValidateFrame

\* validator.py:132-174 and 180: the summary, and the return.
VSummary ==
    /\ vpc = "after"
    /\ LET nOoo == IF vCounts.ooo > 0 THEN 1 ELSE 0
           nDup == IF vCounts.dup > 0 /\ vHeader = "candle" THEN 1 ELSE 0
           nZero == IF vCounts.zero > 0 THEN 1 ELSE 0
           nBad == IF vCounts.bad > 0 THEN 1 ELSE 0
           nEmpty == IF vRowCount = 0 THEN 1 ELSE 0
       IN  /\ vIssues' = vIssues + nOoo + nDup + nZero + nBad + nEmpty
           /\ vRet' = [total_rows |-> vRowCount,
                       valid |-> nOoo + nDup + nZero + nBad + nEmpty = 0,
                       fatal |-> FALSE,
                       counts |-> vCounts]
    /\ vpc' = "returned"
    /\ UNCHANGED <<vHeader, vUnread, vData, vExc, vRowCount, vPrev, vCounts, vTruth>>
    /\ UNCHANGED ValidateFrame

\* validator.py:176-180: what left the try block is caught, listed as a
\* fatal error, and the results are returned as they stand.
VExcept ==
    /\ vpc = "except"
    /\ IF Caught(vExc)
         THEN /\ vIssues' = vIssues + 1
              /\ vRet' = [vRet EXCEPT !.valid = FALSE, !.fatal = TRUE]
              /\ vpc' = "returned"
         ELSE /\ vpc' = "raised"
              /\ UNCHANGED <<vIssues, vRet>>
    /\ UNCHANGED <<vHeader, vUnread, vData, vExc, vRowCount, vPrev, vCounts, vTruth>>
    /\ UNCHANGED ValidateFrame

\* server.py:178-181, ServerProgressObserver.on_finish: the verdict is
\* logged, and so is an exception of the call; the job goes on.
OnFinishLogs ==
    /\ vpc \in {"returned", "raised"}
    /\ vpc' = "logged"
    /\ UNCHANGED <<vHeader, vUnread, vData, vExc, vRowCount, vPrev, vCounts, vIssues, vRet, vTruth>>
    /\ UNCHANGED ValidateFrame

ValidateNext ==
    \/ \E exists \in BOOLEAN : VOpen(exists)
    \/ \E row \in FileRows(vHeader) : VRow(row)
    \/ VRowsEnd
    \/ VSummary
    \/ VExcept
    \/ OnFinishLogs

(***************************************************************************)
(* Claims about validate_output.                                           *)
(***************************************************************************)

\* C33: validate_output never raises, whatever the file holds (nothing, no
\* header, unparseable rows, non-numeric or missing prices): it returns its
\* results object, and a failure of the validation is reported in it (the
\* object is marked not valid and lists an issue).
C33_ValidatorOnlyReports ==
    /\ vpc # "raised"
    /\ vpc \in {"returned", "logged"} =>
          /\ vRet.fatal => ~vRet.valid
          /\ ~vRet.valid => vIssues >= 1
          /\ vExc # "none" => vRet.fatal
          /\ vData = 0 => ~vRet.valid

\* A candle row cut short made float() raise a TypeError inside the scan;
\* the call still returned, with the failure in the results.
C33_Witness ==
    /\ vpc = "returned"
    /\ vExc = "TypeError"
    /\ vRet.fatal
    /\ ~vRet.valid
    /\ vRowCount >= 2

\* C34 (as claimed): validate_output scans every data row of the file:
\* total_rows is the number of data rows, and the invalid-OHLC and
\* non-positive-price counts cover every row read, also when many rows do
\* not parse or the file has no header row.
C34_EveryRowScanned ==
    (vpc \in {"returned", "logged"} /\ vExc = "none") =>
        /\ vRet.total_rows = vData
        /\ ~vTruth.missed

(***************************************************************************)
(* Part XIII.  core/processor.py normalize_hour, decompress                *)
(***************************************************************************)

\* The hours of the day that are tried, and the milliseconds between the
\* hour_start of one hour and of the next (processor.py:68).
DecHours == 2
HourMs == 3600000

\* Raw ticks (processor.py:41-58): time_ms is the offset from the start of
\* the hour, an unsigned 32-bit number, so it may lie beyond the hour.
RawTicks ==
    {[time_ms |-> 0, ask_raw |-> 1], [time_ms |-> 100, ask_raw |-> 2],
     [time_ms |-> 3600050, ask_raw |-> 1]}

\* What an hour's blob can be: no bytes, bytes decompress_lzma raises on,
\* a stream of zero bytes, or the stream of one or two raw ticks.
HourBlobs ==
    {[kind |-> k, tokens |-> <<>>] : k \in {"empty", "corrupt", "void"}}
        \cup {[kind |-> "ticks", tokens |-> <<a>>] : a \in RawTicks}
        \cup {[kind |-> "ticks", tokens |-> <<a, b>>] : a \in RawTicks, b \in RawTicks}

\* processor.py:61-80 normalize_hour: the instant is hour_start +
\* timedelta(milliseconds=time_ms), in milliseconds since the day's
\* midnight; ask_raw / point as in Part VII.
NormalizeHour(hour, ticks) ==
    [i \in 1..Len(ticks) |->
        [ts |-> hour * HourMs + ticks[i].time_ms, ask |-> ticks[i].ask_raw * 10]]

\* processor.py:96-107: the ticks one pair adds to all_ticks.  An exception
\* of decompress_lzma is swallowed (processor.py:105-107).
HourTicks(pair) ==
    LET hour == pair[1]
        blob == pair[2]
    IN IF blob.kind = "empty" THEN <<>>
       ELSE IF blob.kind = "corrupt" THEN <<>>
       ELSE IF Len(blob.tokens) = 0 THEN <<>>
       ELSE NormalizeHour(hour, blob.tokens)

\* list.sort(key=lambda t: t[0]) (processor.py:110): a stable sort; x goes
\* behind every element that is not later than it.
RECURSIVE InsertByTs(_, _)
InsertByTs(q, x) ==
    IF q = <<>> THEN <<x>>
    ELSE IF q[Len(q)].ts <= x.ts THEN Append(q, x)
    ELSE Append(InsertByTs(SubSeq(q, 1, Len(q) - 1), x), q[Len(q)])

RECURSIVE SortByTsFrom(_, _, _)
SortByTsFrom(q, i, out) ==
    IF i > Len(q) THEN out ELSE SortByTsFrom(q, i + 1, InsertByTs(out, q[i]))

SortByTsKeepsOrder(q) == q
SortByTs(q) == SortByTsFrom(q, 1, <<>>)

\* fetch_day hands over one pair per hour, in the order of the hours.
DecompressInit ==
    /\ uList \in [1..DecHours -> HourBlobs]
    /\ uIx = 1
    /\ uAll = <<>>
    /\ uRet = <<>>
    /\ upc = "loop"

\* processor.py:95-107: one pass of the loop over hourly_data_list.
DecompressHour ==
    /\ upc = "loop"
    /\ uIx <= Len(uList)
    /\ uAll' = uAll \o HourTicks(<<uIx - 1, uList[uIx]>>)
    /\ uIx' = uIx + 1
    /\ UNCHANGED <<uList, uRet, upc>>
    /\ UNCHANGED DecompressFrame

\* processor.py:110-112: the sort, and the return.
DecompressReturn ==
    /\ upc = "loop"
    /\ uIx > Len(uList)
    /\ uRet' = SortByTs(uAll)
    /\ upc' = "returned"
    /\ UNCHANGED <<uList, uIx, uAll>>
    /\ UNCHANGED DecompressFrame

DecompressNext ==
    \/ DecompressHour
    \/ DecompressReturn

(***************************************************************************)
(* Claims about decompress.                                                *)
(***************************************************************************)

\* The raw ticks of the hours that decoded: (hour, position) pairs.
Decoded == {hi \in (0..(DecHours - 1)) \X (1..2) :
              /\ uList[hi[1] + 1].kind = "ticks"
              /\ hi[2] <= Len(uList[hi[1] + 1].tokens)}
\* The instant of such a tick: base(date, hour) + time_ms milliseconds.
Instant(hi) == hi[1] * HourMs + uList[hi[1] + 1].tokens[hi[2]].time_ms

\* C36: decompress returns the ticks of all decoded hours of the day in
\* ascending order of their instants, each at base(date, hour) + time_ms;
\* an hour whose blob is empty or does not decode adds no tick and leaves
\* the ticks of the other hours as they are.
C36_DecompressMergesHours ==
    upc = "returned" =>
        /\ \A i \in 1..(Len(uRet) - 1) : uRet[i].ts <= uRet[i + 1].ts
        /\ Len(uRet) = Cardinality(Decoded)
        /\ \A hi \in Decoded :
              Cardinality({i \in 1..Len(uRet) :
                  /\ uRet[i].ts = Instant(hi)
                  /\ uRet[i].ask = uList[hi[1] + 1].tokens[hi[2]].ask_raw * 10})
              = Cardinality({hj \in Decoded :
                  /\ Instant(hj) = Instant(hi)
                  /\ uList[hj[1] + 1].tokens[hj[2]].ask_raw
                       = uList[hi[1] + 1].tokens[hi[2]].ask_raw})

\* Hour 0 does not decode; hour 1 holds two ticks out of order: they come
\* back in order, at instants inside hour 1.
C36_Witness ==
    /\ upc = "returned"
    /\ uList[1].kind = "corrupt"
    /\ uList[2].kind = "ticks"
    /\ Len(uList[2].tokens) = 2
    /\ uList[2].tokens[1].time_ms > uList[2].tokens[2].time_ms
    /\ Len(uRet) = 2
    /\ uRet[1].ts = HourMs
    /\ uRet[2].ts = HourMs + 100

(***************************************************************************)
(* Part XIV.  utils/resume.py under core/service.py and app.py             *)
(***************************************************************************)

\* The runs that share the output directory (two jobs of the server, which
\* all write to DATA_DIR, or two processes), each for its own symbol, and
\* the threads of a run that call save_state: the workers of app.py:104-118
\* (in service.py:241-246 it is the one thread of the as_completed loop).
Runs == {1, 2}
Savers == {1, 2}
\* Thread 0 of a run is the one that calls clear_state after the pool.
StateThreads == Runs \X ({0} \cup Savers)

NoStateEntry == 0

StateFileInit ==
    /\ tFile = [r \in Runs |-> NoStateEntry]
    /\ tLock = [r \in Runs |-> 0]
    /\ tpc = [t \in StateThreads |-> "idle"]
    /\ tLocal = [t \in StateThreads |-> [r \in Runs |-> NoStateEntry]]
    /\ tDone = [r \in Runs |-> 0]
    /\ tLost = FALSE

\* `with lock:` (service.py:241, app.py:117).  The lock is made by the run
\* (service.py:190, app.py:81): a thread waits only for threads of its run.
StateLock(t) ==
    /\ t[2] \in Savers
    /\ tpc[t] = "idle"
    /\ tLock[t[1]] = 0
    /\ tLock' = [tLock EXCEPT ![t[1]] = t[2]]
    /\ tpc' = [tpc EXCEPT ![t] = "locked"]
    /\ tDone' = [tDone EXCEPT ![t[1]] = @ + 1]
    /\ UNCHANGED <<tFile, tLocal, tLost>>
    /\ UNCHANGED StateFileFrame

\* save_state, resume.py:25-29: the file is loaded.
SaveRead(t) ==
    /\ tpc[t] = "locked"
    /\ tLocal' = [tLocal EXCEPT ![t] = tFile]
    /\ tpc' = [tpc EXCEPT ![t] = "read"]
    /\ UNCHANGED <<tFile, tLock, tDone, tLost>>
    /\ UNCHANGED StateFileFrame

\* Did replacing the file by `new` undo the entry of a symbol other than
\* that of run r?
Undoes(r, new) == \E s \in Runs \ {r} : tFile[s] # NoStateEntry /\ new[s] # tFile[s]

\* save_state, resume.py:31-38: the symbol's entry is set in the loaded
\* dict and the dict is written over the file.
SaveWrite(t) ==
    /\ tpc[t] = "read"
    /\ LET new == [tLocal[t] EXCEPT ![t[1]] = tDone[t[1]]]
       IN /\ tFile' = new
          /\ tLost' = (tLost \/ Undoes(t[1], new))
    /\ tpc' = [tpc EXCEPT ![t] = "written"]
    /\ UNCHANGED <<tLock, tLocal, tDone>>
    /\ UNCHANGED StateFileFrame

\* The end of the `with lock:` block.
StateUnlock(t) ==
    /\ tpc[t] = "written"
    /\ t[2] \in Savers
    /\ tLock' = [tLock EXCEPT ![t[1]] = 0]
    /\ tpc' = [tpc EXCEPT ![t] = "done"]
    /\ UNCHANGED <<tFile, tLocal, tDone, tLost>>
    /\ UNCHANGED StateFileFrame

\* clear_state, resume.py:74-76, called once the run's pool has drained
\* (service.py:256, app.py:150), without the lock: the file is loaded.
ClearRead(r) ==
    /\ tpc[<<r, 0>>] = "idle"
    /\ \A w \in Savers : tpc[<<r, w>>] = "done"
    /\ tLocal' = [tLocal EXCEPT ![<<r, 0>>] = tFile]
    /\ tpc' = [tpc EXCEPT ![<<r, 0>>] = "read"]
    /\ UNCHANGED <<tFile, tLock, tDone, tLost>>
    /\ UNCHANGED StateFileFrame

\* clear_state, resume.py:77-83: the symbol's entry is deleted from the
\* loaded dict, and the dict is written back (the file removed when the
\* dict is empty).
ClearWrite(r) ==
    /\ tpc[<<r, 0>>] = "read"
    /\ LET new == [tLocal[<<r, 0>>] EXCEPT ![r] = NoStateEntry]
       IN /\ tFile' = new
          /\ tLost' = (tLost \/ Undoes(r, new))
    /\ tpc' = [tpc EXCEPT ![<<r, 0>>] = "done"]
    /\ UNCHANGED <<tLock, tLocal, tDone>>
    /\ UNCHANGED StateFileFrame

StateFileNext ==
    \/ \E t \in StateThreads : StateLock(t) \/ SaveRead(t) \/ SaveWrite(t) \/ StateUnlock(t)
    \/ \E r \in Runs : ClearRead(r) \/ ClearWrite(r)

(***************************************************************************)
(* Claims about the state file.                                            *)
(***************************************************************************)

\* The threads between loading the file and writing it back.
InCycle == {t \in StateThreads : tpc[t] = "read"}

\* C37 (as claimed): the read-modify-write cycles of save_state and
\* clear_state on the state file never overlap, for the threads of one
\* symbol run and for two runs that share the output directory, so that
\* no entry of a symbol is lost.
C37_StateFileCyclesExclusive ==
    /\ Cardinality(InCycle) <= 1
    /\ ~tLost

(***************************************************************************)
(* Part XV.  core/csv_dumper.py temp_dir under core/service.py             *)
(***************************************************************************)

\* The pending days of the run.
RunDays == 5

\* run() has chosen the path and calls _process_native or _process_ticks
\* (service.py:114-118).
TempDirInit ==
    /\ yNative \in BOOLEAN
    /\ ypc = "new"
    /\ yDir = FALSE
    /\ yDays = 0
    /\ yParts = 0
    /\ yCancel = FALSE
    /\ yOut = FALSE
    /\ yExit = "none"

\* CSVDumper(...) (service.py:127, 178): __init__ makes the directory
\* (csv_dumper.py:57-59).
NewDumper ==
    /\ ypc = "new"
    /\ yDir' = TRUE
    /\ ypc' = "work"
    /\ UNCHANGED <<yNative, yDays, yParts, yCancel, yOut, yExit>>
    /\ UNCHANGED TempDirFrame

\* service.py:74-76 cancel()
CancelRun ==
    /\ ypc \in {"new", "work"}
    /\ ~yCancel
    /\ yCancel' = TRUE
    /\ UNCHANGED <<yNative, ypc, yDir, yDays, yParts, yOut, yExit>>
    /\ UNCHANGED TempDirFrame

\* _process_native, service.py:133-148: fetch_native_candles returns and
\* the candles are buffered, or it raises; the exception leaves
\* _process_native and is caught by run() (service.py:119-121).
NativeFetch(ok) ==
    /\ ypc = "work"
    /\ yNative
    /\ IF ok
         THEN ypc' = "merge" /\ yExit' = yExit
         ELSE ypc' = "exit" /\ yExit' = "failure"
    /\ UNCHANGED <<yNative, yDir, yDays, yParts, yCancel, yOut>>
    /\ UNCHANGED TempDirFrame

\* _process_ticks, service.py:236-248: the loop handles one more future.
\* The day spilled a part file (csv_dumper.py:165-166) or gave nothing;
\* save_state (service.py:246) may raise, which ends the run through
\* run()'s handler.
TickDayHandled(spilled, saved) ==
    /\ ypc = "work"
    /\ ~yNative
    /\ ~yCancel
    /\ yDays < RunDays
    /\ yDays' = yDays + 1
    /\ yParts' = IF spilled THEN yParts + 1 ELSE yParts
    /\ IF saved
         THEN UNCHANGED <<ypc, yExit>>
         ELSE ypc' = "exit" /\ yExit' = "failure"
    /\ UNCHANGED <<yNative, yDir, yCancel, yOut>>
    /\ UNCHANGED TempDirFrame

\* service.py:237-238 and 250-252: the loop is left, and on the flag the
\* run returns without a merge.
TickLoopEnds ==
    /\ ypc = "work"
    /\ ~yNative
    /\ yCancel \/ yDays = RunDays
    /\ IF yCancel
         THEN ypc' = "exit" /\ yExit' = "cancelled"
         ELSE ypc' = "merge" /\ yExit' = yExit
    /\ UNCHANGED <<yNative, yDir, yDays, yParts, yCancel, yOut>>
    /\ UNCHANGED TempDirFrame

\* csv_dumper.dump() (csv_dumper.py:187-233): the merge into the final
\* file either raises (the output cannot be written), which ends the run
\* through run()'s handler before the cleanup, or is followed by the
\* cleanup, whose own failure is swallowed (csv_dumper.py:227-231).
DumpAndCleanup(merged, removed) ==
    /\ ypc = "merge"
    /\ ypc' = "exit"
    /\ IF merged
         THEN /\ yOut' = TRUE
              /\ yExit' = "success"
              /\ yDir' = ~removed
              /\ yParts' = IF removed THEN 0 ELSE yParts
         ELSE /\ yExit' = "failure"
              /\ UNCHANGED <<yOut, yDir, yParts>>
    /\ UNCHANGED <<yNative, yDays, yCancel>>
    /\ UNCHANGED TempDirFrame

TempDirNext ==
    \/ NewDumper
    \/ CancelRun
    \/ \E ok \in BOOLEAN : NativeFetch(ok)
    \/ \E spilled \in BOOLEAN, saved \in BOOLEAN : TickDayHandled(spilled, saved)
    \/ TickLoopEnds
    \/ \E merged \in BOOLEAN, removed \in BOOLEAN : DumpAndCleanup(merged, removed)

(***************************************************************************)
(* Claims about the temporary directory.                                   *)
(***************************************************************************)

\* C38 (as claimed): the temporary directory of a symbol run is removed on
\* every exit path but cancellation: after a successful final merge, and
\* after a failure of the run, it does not exist.
C38_TempDirRemovedOnExit ==
    yExit \in {"success", "failure"} => ~yDir

(***************************************************************************)
(* Part XVI.  core/service.py, the calls of the ProgressObserver           *)
(***************************************************************************)

\* The most days a run has.
MaxTotal == 4

\* run() calls _process_native(symbol, total_days) or
\* _process_ticks(symbol, all_days) (service.py:114-118); on the tick path
\* a run with no pending day returns before on_start (service.py:172-174).
ObserverInit ==
    /\ nNative \in BOOLEAN
    /\ nTotal \in 1..MaxTotal
    /\ npc = "begin"
    /\ nHandled = 0
    /\ nCount = 0
    /\ nLog = <<>>

\* service.py:124 and 176: on_start(symbol, total).
NotifyStart ==
    /\ npc = "begin"
    /\ nLog' = Append(nLog, [call |-> "on_start", done |-> 0, total |-> nTotal])
    /\ npc' = IF nNative THEN "fetch" ELSE "loop"
    /\ UNCHANGED <<nNative, nTotal, nHandled, nCount>>
    /\ UNCHANGED ObserverFrame

\* service.py:236-248: one pass of the as_completed loop, with the day's
\* success; completed_count grows on success, then on_update is called.
TickUpdate(success) ==
    /\ npc = "loop"
    /\ nHandled < nTotal
    /\ nHandled' = nHandled + 1
    /\ nCount' = IF success THEN nCount + 1 ELSE nCount
    /\ nLog' = Append(nLog, [call |-> "on_update",
                             done |-> IF success THEN nCount + 1 ELSE nCount,
                             total |-> nTotal])
    /\ UNCHANGED <<nNative, nTotal, npc>>
    /\ UNCHANGED ObserverFrame

\* service.py:237-238, 250-252: the flag is seen, the run returns.
TickCancelled ==
    /\ npc = "loop"
    /\ npc' = "end"
    /\ UNCHANGED <<nNative, nTotal, nHandled, nCount, nLog>>
    /\ UNCHANGED ObserverFrame

\* service.py:254-256: dump, then on_finish(symbol, file_path).
TickFinish ==
    /\ npc = "loop"
    /\ nHandled = nTotal
    /\ nLog' = Append(nLog, [call |-> "on_finish", done |-> 0, total |-> 0])
    /\ npc' = "end"
    /\ UNCHANGED <<nNative, nTotal, nHandled, nCount>>
    /\ UNCHANGED ObserverFrame

\* service.py:133-142: the candles are fetched and dumped and on_finish is
\* called; or a call raises and run() reports it (service.py:119-120).
NativeFinish(ok) ==
    /\ npc = "fetch"
    /\ IF ok
         THEN /\ nLog' = Append(nLog, [call |-> "on_finish", done |-> 0, total |-> 0])
              /\ npc' = "finished"
         ELSE /\ nLog' = Append(nLog, [call |-> "on_error", done |-> 0, total |-> 0])
              /\ npc' = "end"
    /\ UNCHANGED <<nNative, nTotal, nHandled, nCount>>
    /\ UNCHANGED ObserverFrame

\* service.py:144-145: on_update(symbol, total_days, total_days, True).
NativeUpdate ==
    /\ npc = "finished"
    /\ nLog' = Append(nLog, [call |-> "on_update", done |-> nTotal, total |-> nTotal])
    /\ npc' = "end"
    /\ UNCHANGED <<nNative, nTotal, nHandled, nCount>>
    /\ UNCHANGED ObserverFrame

ObserverNext ==
    \/ NotifyStart
    \/ \E success \in BOOLEAN : TickUpdate(success)
    \/ TickCancelled
    \/ TickFinish
    \/ \E ok \in BOOLEAN : NativeFinish(ok)
    \/ NativeUpdate

(***************************************************************************)
(* Claims about the notifications.                                         *)
(***************************************************************************)

\* C39 (as claimed): for a symbol, on_start comes before every on_update,
\* on_finish (when there is one) comes after the last on_update, and the
\* done count of the on_update calls never decreases and never exceeds the
\* total; on the tick path and on the native-candle path.
C39_NotificationsOrdered ==
    \A i \in 1..Len(nLog) :
        /\ nLog[i].call = "on_update" =>
              /\ \E j \in 1..(i - 1) : nLog[j].call = "on_start"
              /\ nLog[i].done <= nLog[i].total
              /\ \A j \in 1..(i - 1) :
                    nLog[j].call = "on_update" => nLog[j].done <= nLog[i].done
        /\ nLog[i].call = "on_finish" =>
              \A j \in (i + 1)..Len(nLog) : nLog[j].call # "on_update"

(***************************************************************************)
(* Specifications.                                                         *)
(***************************************************************************)

\* One download_hour call; no run of the service.
FetchIdle ==
    /\ fHour = 0
    /\ fAttempt = 0
    /\ fLastError = NoError
    /\ fRequests = 0
    /\ fState = "returned"
    /\ fResult = <<>>
    /\ fLead503 = 0
    /\ fN503 = 0
    /\ fFirst = NoFinal

OrchIdle ==
    /\ symbols = <<"EURUSD">>
    /\ numDays = NumDays
    /\ resume = FALSE
    /\ startDate = PlainStart
    /\ jobState = NoState
    /\ cancel = FALSE
    /\ circuitOpen = FALSE
    /\ circuitResetTime = 0
    /\ now = 0
    /\ priorState = NoState
    /\ output = [s \in AllSymbols |-> NoFile]
    /\ tempDir = [s \in AllSymbols |-> NoDir]
    /\ symIx = 1
    /\ mpc = "done"
    /\ pending = <<>>
    /\ subIx = 1
    /\ wpc = [d \in Days |-> "none"]
    /\ wres = [d \in Days |-> FALSE]
    /\ collected = {}
    /\ completedList = {}
    /\ completedCount = 0
    /\ hist = NoHist

DayIdle ==
    /\ dGot = [h \in DayHours |-> "pending"]
    /\ dpc = "idle"
    /\ dIx = 0
    /\ dTicks = <<>>
    /\ dPartial = NoPart
    /\ dOutcome = "none"

GenIdle ==
    /\ gStart = 1
    /\ gEnd = 1
    /\ gToday = 1
    /\ gCurrent = 1
    /\ gOut = <<>>
    /\ gpc = "idle"

SourceIdle ==
    /\ sSource = "auto"
    /\ sPeriod = "TICK"
    /\ sStartDate = PlainStart
    /\ sNumDays = 1
    /\ spc = "idle"
    /\ sNative = FALSE
    /\ sPlan = {}
    /\ sFetched = {}
    /\ sRows = {}

MergerIdle ==
    /\ cmIn = <<>>
    /\ cmLast = NoRow
    /\ cmOut = <<>>
    /\ cmRet = NoRow
    /\ cmFlush = NoRow
    /\ cmpc = "idle"

AssemblyIdle ==
    /\ aPeriod = 0
    /\ aPrice = "BID"
    /\ aVolume = "TOTAL"
    /\ aTicks = <<>>
    /\ aParts = <<>>
    /\ aOrder = <<>>
    /\ aOut = <<>>
    /\ apc = "idle"

LzmaIdle ==
    /\ zBlob = <<>>
    /\ zData = <<>>
    /\ zResults = <<>>
    /\ zRet = <<>>
    /\ zpc = "idle"

FetchDayIdle ==
    /\ hpc = "idle"
    /\ hIx = 0
    /\ hClock = 0
    /\ hState = <<>>
    /\ hValue = 0
    /\ hWaiters = <<>>
    /\ hReqStart = <<>>
    /\ hWaited = {}
    /\ hOrder = FALSE
    /\ hRet = <<>>

FetchCancelIdle ==
    kAtCancel = <<>>

JobIdle ==
    /\ jStatus = "none"
    /\ jEvent = FALSE
    /\ jpc = "idle"
    /\ jSymIx = 0
    /\ jFiles = 0
    /\ jhpc = "idle"
    /\ jCancels = 0

ValidateIdle ==
    /\ vHeader = "none"
    /\ vUnread = 0
    /\ vData = 0
    /\ vpc = "idle"
    /\ vExc = "none"
    /\ vRowCount = 0
    /\ vPrev = <<>>
    /\ vCounts = NoCounts
    /\ vIssues = 0
    /\ vRet = NoResults
    /\ vTruth = NoTruth

DecompressIdle ==
    /\ uList = <<>>
    /\ uIx = 0
    /\ uAll = <<>>
    /\ uRet = <<>>
    /\ upc = "idle"

StateFileIdle ==
    /\ tFile = <<>>
    /\ tLock = <<>>
    /\ tpc = <<>>
    /\ tLocal = <<>>
    /\ tDone = <<>>
    /\ tLost = FALSE

TempDirIdle ==
    /\ yNative = FALSE
    /\ ypc = "idle"
    /\ yDir = FALSE
    /\ yDays = 0
    /\ yParts = 0
    /\ yCancel = FALSE
    /\ yOut = FALSE
    /\ yExit = "none"

ObserverIdle ==
    /\ nNative = FALSE
    /\ nTotal = 0
    /\ npc = "idle"
    /\ nHandled = 0
    /\ nCount = 0
    /\ nLog = <<>>

OtherIdle == DayIdle /\ GenIdle /\ SourceIdle /\ MergerIdle /\ AssemblyIdle /\ LzmaIdle /\ FetchDayIdle /\ FetchCancelIdle /\ JobIdle /\ ValidateIdle /\ DecompressIdle /\ StateFileIdle /\ TempDirIdle /\ ObserverIdle

FetchStart == FetchInit /\ OrchIdle /\ OtherIdle /\ ValidateIdle /\ DecompressIdle /\ StateFileIdle /\ TempDirIdle /\ ObserverIdle
OrchStart == OrchInit /\ FetchIdle /\ OtherIdle
MultiStart == MultiInit /\ FetchIdle /\ OtherIdle
BreakerStart == BreakerInit /\ FetchIdle /\ OtherIdle
DayStart == DayInit /\ FetchIdle /\ OrchIdle /\ GenIdle /\ SourceIdle /\ MergerIdle /\ AssemblyIdle /\ LzmaIdle /\ FetchDayIdle /\ FetchCancelIdle /\ JobIdle /\ ValidateIdle /\ DecompressIdle /\ StateFileIdle /\ TempDirIdle /\ ObserverIdle
GenStart == GenInit /\ FetchIdle /\ OrchIdle /\ DayIdle /\ SourceIdle /\ MergerIdle /\ AssemblyIdle /\ LzmaIdle /\ FetchDayIdle /\ FetchCancelIdle /\ JobIdle /\ ValidateIdle /\ DecompressIdle /\ StateFileIdle /\ TempDirIdle /\ ObserverIdle
SourceStart == SourceInit /\ FetchIdle /\ OrchIdle /\ DayIdle /\ GenIdle /\ MergerIdle /\ AssemblyIdle /\ LzmaIdle /\ FetchDayIdle /\ FetchCancelIdle /\ JobIdle /\ ValidateIdle /\ DecompressIdle /\ StateFileIdle /\ TempDirIdle /\ ObserverIdle
MergerStart == MergerInit /\ FetchIdle /\ OrchIdle /\ DayIdle /\ GenIdle /\ SourceIdle /\ AssemblyIdle /\ LzmaIdle /\ FetchDayIdle /\ FetchCancelIdle /\ JobIdle /\ ValidateIdle /\ DecompressIdle /\ StateFileIdle /\ TempDirIdle /\ ObserverIdle
AssemblyStart == AssemblyInit /\ FetchIdle /\ OrchIdle /\ DayIdle /\ GenIdle /\ SourceIdle /\ MergerIdle /\ LzmaIdle /\ FetchDayIdle /\ FetchCancelIdle /\ JobIdle /\ ValidateIdle /\ DecompressIdle /\ StateFileIdle /\ TempDirIdle /\ ObserverIdle
LzmaStart == LzmaInit /\ FetchIdle /\ OrchIdle /\ DayIdle /\ GenIdle /\ SourceIdle /\ MergerIdle /\ AssemblyIdle /\ FetchDayIdle /\ FetchCancelIdle /\ JobIdle /\ ValidateIdle /\ DecompressIdle /\ StateFileIdle /\ TempDirIdle /\ ObserverIdle
FetchDayStart == FetchDayInit /\ FetchIdle /\ OrchIdle /\ DayIdle /\ GenIdle /\ SourceIdle /\ MergerIdle /\ AssemblyIdle /\ LzmaIdle /\ FetchCancelIdle /\ JobIdle /\ ValidateIdle /\ DecompressIdle /\ StateFileIdle /\ TempDirIdle /\ ObserverIdle
JobStart == JobInit /\ FetchIdle /\ OrchIdle /\ DayIdle /\ GenIdle /\ SourceIdle /\ MergerIdle /\ AssemblyIdle /\ LzmaIdle /\ FetchDayIdle /\ FetchCancelIdle /\ ValidateIdle /\ DecompressIdle /\ StateFileIdle /\ TempDirIdle /\ ObserverIdle
FetchCancelStart == FetchCancelInit /\ OrchIdle /\ DayIdle /\ GenIdle /\ SourceIdle /\ MergerIdle /\ AssemblyIdle /\ LzmaIdle /\ FetchDayIdle /\ JobIdle /\ ValidateIdle /\ DecompressIdle /\ StateFileIdle /\ TempDirIdle /\ ObserverIdle
ValidateStart == ValidateInit /\ FetchIdle /\ OrchIdle /\ DayIdle /\ GenIdle /\ SourceIdle /\ MergerIdle /\ AssemblyIdle /\ LzmaIdle /\ FetchDayIdle /\ FetchCancelIdle /\ JobIdle /\ DecompressIdle /\ StateFileIdle /\ TempDirIdle /\ ObserverIdle
DecompressStart == DecompressInit /\ FetchIdle /\ OrchIdle /\ DayIdle /\ GenIdle /\ SourceIdle /\ MergerIdle /\ AssemblyIdle /\ LzmaIdle /\ FetchDayIdle /\ FetchCancelIdle /\ JobIdle /\ ValidateIdle /\ StateFileIdle /\ TempDirIdle /\ ObserverIdle
StateFileStart == StateFileInit /\ FetchIdle /\ OrchIdle /\ DayIdle /\ GenIdle /\ SourceIdle /\ MergerIdle /\ AssemblyIdle /\ LzmaIdle /\ FetchDayIdle /\ FetchCancelIdle /\ JobIdle /\ ValidateIdle /\ DecompressIdle /\ TempDirIdle /\ ObserverIdle
TempDirStart == TempDirInit /\ FetchIdle /\ OrchIdle /\ DayIdle /\ GenIdle /\ SourceIdle /\ MergerIdle /\ AssemblyIdle /\ LzmaIdle /\ FetchDayIdle /\ FetchCancelIdle /\ JobIdle /\ ValidateIdle /\ DecompressIdle /\ StateFileIdle /\ ObserverIdle
ObserverStart == ObserverInit /\ FetchIdle /\ OrchIdle /\ DayIdle /\ GenIdle /\ SourceIdle /\ MergerIdle /\ AssemblyIdle /\ LzmaIdle /\ FetchDayIdle /\ FetchCancelIdle /\ JobIdle /\ ValidateIdle /\ DecompressIdle /\ StateFileIdle /\ TempDirIdle

\* One call of download_hour.
SpecFetch == FetchStart /\ [][FetchNext]_vars

\* The same call on an event loop that runs it: every request ends (the
\* ClientTimeout of fetch.py:38-42 bounds it) and every sleep is finite.
SpecFetchFair == FetchStart /\ [][FetchNext]_vars /\ WF_vars(FetchNext)

\* One run of the service, for each of the three configurations.
SpecOrch == OrchStart /\ [][OrchNext]_vars

SpecMulti == MultiStart /\ [][OrchNext]_vars

SpecBreaker == BreakerStart /\ [][OrchNext]_vars

\* One day's pipeline.
SpecDay == DayStart /\ [][DayNext]_vars

\* One walk of the day generator.
SpecGen == GenStart /\ [][GenNext]_vars

\* One request, from the choice of the data source to its last blob.
SpecSource == SourceStart /\ [][SourceNext]_vars

\* One dump: rows fed one by one, then the flush.
SpecMerger == MergerStart /\ [][MergerNext]_vars

\* One CSVDumper: the days appended in any order, then the dump.
SpecAssembly == AssemblyStart /\ [][AssemblyNext]_vars

\* One call of decompress_lzma on a blob.
SpecLzma == LzmaStart /\ [][LzmaNext]_vars

\* One fetch_day call: its 24 download_hour tasks on the thread's event loop.
SpecFetchDay == FetchDayStart /\ [][FetchDayNext]_vars

\* The same call on a loop that runs what is ready.
SpecFetchDayFair == FetchDayStart /\ [][FetchDaySlotsNext]_vars /\ FetchDayFair

\* One download_hour call of a worker thread, with cancel() called at any moment.
SpecFetchCancel == FetchCancelStart /\ [][FetchCancelNext]_vars

\* One job of the web server: its thread and the cancel route of the API.
SpecJob == JobStart /\ [][JobNext]_vars

\* One validate_output call on a file of any content.
SpecValidate == ValidateStart /\ [][ValidateNext]_vars

\* One decompress call on the hourly blobs of a day.
SpecDecompress == DecompressStart /\ [][DecompressNext]_vars

\* Two symbol runs with one output directory: their save_state and clear_state calls.
SpecStateFile == StateFileStart /\ [][StateFileNext]_vars

\* One symbol run, from the making of its CSVDumper to its exit.
SpecTempDir == TempDirStart /\ [][TempDirNext]_vars

\* One symbol run and the calls its observer gets.
SpecObserver == ObserverStart /\ [][ObserverNext]_vars

====
